---- MODULE Spec2Model ----
(***************************************************************************)
(* RP2040 production flasher.                                              *)
(*                                                                         *)
(* Two state machines share this module:                                   *)
(*   Spec     the RP2040 Programmer main window (gui/main_window.py): the  *)
(*            UI thread, the message queue, the workflow worker threads    *)
(*            and the CSV manager they share (core/csv_manager.py);        *)
(*   SpecCLI  FlashApp's production_programming runs against one ledger    *)
(*            file (FlashApp/flasher_core.py, core/serial_manager.py).     *)
(*                                                                         *)
(* Step results that the code receives as typed results (upload,           *)
(* provisioning, verification, label, ledger update/save) are drawn        *)
(* nondeterministically.  Exceptions other than the ones _run_workflow     *)
(* raises itself are not part of the model.                                *)
(***************************************************************************)
EXTENDS Integers, Sequences, FiniteSets, TLC

\* ------------------------------------------------------------------------
\* Bounds
\* ------------------------------------------------------------------------
\* the Stop button is only pressed while fewer messages than this are pending
MaxQueue == 1
\* number of production_programming runs against the ledger file
MaxCliRuns == 3
\* rows of the ledger file production_programming works on
CliRows == 3
\* rows of the ledger file the GUI works on
MaxRows == 2

\* ------------------------------------------------------------------------
\* Ledger rows and the CSV manager (core/csv_manager.py)
\* ------------------------------------------------------------------------
None == "none"

\* CSVRow: serial number and whether date_programmed is non-empty
Row(sn, prog) == [serial_number |-> sn, programmed |-> prog]

\* CSVRow.is_programmed
is_programmed(row) == row.programmed

\* the ledger files present on disk when the application starts: the
\* ledger A being worked on, and another ledger B of one row that has none
\* of A's serial numbers
FileIds == {"A", "B"}
InitDisk ==
    [f \in FileIds |->
        IF f = "A" THEN [i \in 1..MaxRows |-> Row("A" \o ToString(i), FALSE)]
                   ELSE << Row("B1", FALSE) >>]

\* CSVManager.select_row: index (1-based here) is selected when it is in range
select_row(rows, sel, index) ==
    IF index >= 1 /\ index <= Len(rows) THEN index ELSE sel

\* first index of rows satisfying P, 0 when there is none
FirstUnprogrammed(rows) ==
    IF \E i \in 1..Len(rows) : ~is_programmed(rows[i])
    THEN CHOOSE i \in 1..Len(rows) :
            /\ ~is_programmed(rows[i])
            /\ \A j \in 1..(i-1) : is_programmed(rows[j])
    ELSE 0

\* CSVManager.select_next_unprogrammed: the new selected index
select_next_unprogrammed(rows, sel) ==
    IF FirstUnprogrammed(rows) # 0
    THEN select_row(rows, sel, FirstUnprogrammed(rows))
    ELSE sel

FirstWithSerial(rows, sn) ==
    IF \E i \in 1..Len(rows) : rows[i].serial_number = sn
    THEN CHOOSE i \in 1..Len(rows) :
            /\ rows[i].serial_number = sn
            /\ \A j \in 1..(i-1) : rows[j].serial_number # sn
    ELSE 0

\* CSVManager.select_by_serial: the new selected index (unchanged when the
\* serial number is not in the loaded rows)
select_by_serial(rows, sel, sn) ==
    IF FirstWithSerial(rows, sn) # 0
    THEN select_row(rows, sel, FirstWithSerial(rows, sn))
    ELSE sel

\* CSVManager.update_selected_row with mark_programmed=True: the row list
\* after the call (unchanged when no row is selected)
update_selected_row(rows, sel) ==
    IF sel = 0 THEN rows
    ELSE [rows EXCEPT ![sel] = Row(@.serial_number, TRUE)]

\* ------------------------------------------------------------------------
\* Workflow states and steps (gui/main_window.py)
\* ------------------------------------------------------------------------
WorkflowState ==
    << "IDLE", "WAITING_FOR_DEVICE", "UPLOADING_FIRMWARE", "WAITING_FOR_SERIAL",
       "PROVISIONING", "VERIFYING", "GENERATING_LABEL", "GENERATING_REPORT",
       "UPDATING_CSV", "COMPLETED", "ERROR", "STOPPED" >>

\* the steps of _run_workflow, in program order
Steps == << "upload", "serial", "prov", "verify", "label", "report", "csv" >>

StepIndex(step) == CHOOSE i \in 1..Len(Steps) : Steps[i] = step

\* the state each step posts before it runs
StepState(step) ==
    CASE step = "upload" -> "UPLOADING_FIRMWARE"
      [] step = "serial" -> "WAITING_FOR_SERIAL"
      [] step = "prov"   -> "PROVISIONING"
      [] step = "verify" -> "VERIFYING"
      [] step = "label"  -> "GENERATING_LABEL"
      [] step = "report" -> "GENERATING_REPORT"
      [] step = "csv"    -> "UPDATING_CSV"

StopCheckIgnored(flag) == FALSE

\* "if self.stop_requested: return" in front of every step
StopCheck(flag) == flag

UploadRaisesNever(success) == FALSE

\* "if not ctx.upload_result.success: raise"
UploadRaises(success) == ~success

\* "if not ctx.provisioning_result.success: raise"
ProvisioningRaises(success) == ~success

LabelRaisesOnFailure(success) == ~success

\* "if not ctx.label_result.success: self.logger.warning(...)": no raise
LabelRaises(success) == FALSE

\* core/verification.py, Verifier.verify: the status from SYSINFO and checks
\* serial number, region, firmware version, hardware version
NumChecks == 4
VerificationChecks == [1..NumChecks -> BOOLEAN]
passed_count(checks) == Cardinality({i \in 1..NumChecks : checks[i]})
failed_count(checks) == Cardinality({i \in 1..NumChecks : ~checks[i]})
VerifyStatusPartialNever(sysinfo, checks) ==
    IF ~sysinfo THEN "ERROR"
    ELSE IF failed_count(checks) = 0 THEN "PASSED"
    ELSE "FAILED"

VerifyStatus(sysinfo, checks) ==
    IF ~sysinfo THEN "ERROR"
    ELSE IF failed_count(checks) = 0 THEN "PASSED"
    ELSE IF passed_count(checks) > 0 THEN "PARTIAL"
    ELSE "FAILED"

VerificationSuccessLenient(status) == status \in {"PASSED", "PARTIAL"}

\* VerificationResult.success
VerificationSuccess(status) == status = "PASSED"

set_programming_state_start_left_on(is_programming) ==
    [start |-> TRUE, stop |-> is_programming]

\* ProvisioningPanel.set_programming_state: the Start and Stop buttons
set_programming_state(is_programming) ==
    [start |-> ~is_programming, stop |-> is_programming]

\* ------------------------------------------------------------------------
\* State
\* ------------------------------------------------------------------------
VARIABLES
    disk,             \* ledger files: file id -> rows
    rows,             \* CSVManager._rows
    selected_index,   \* CSVManager._selected_index, 0 for None
    csv_path,         \* CSVManager._path, None when nothing is loaded
    workflow_state,   \* MainWindow.workflow_state
    workflow_context, \* MainWindow.workflow_context: serial number or None
    stop_requested,   \* MainWindow.stop_requested
    message_queue,    \* MainWindow.message_queue
    start_btn,        \* ProvisioningPanel._start_btn enabled
    stop_btn,         \* ProvisioningPanel._stop_btn enabled
    editing_enabled,  \* CSVPanel browse/reload buttons enabled
    workers,          \* the worker threads, in start order; a thread that
                      \* has ended is kept until the next one is started
    cli_file,         \* FlashApp: rows of the ledger CSV file
    cli,              \* FlashApp: the production_programming call in
                      \* progress and the earlier calls' results
    prov,             \* SerialProvisioner: the provision call in progress
    call,             \* a call of one of the components' functions: its
                      \* arguments, what it meets and what it returns
    shell,            \* Desktop Shell (rp_flasher_app.App): the runs started
                      \* from its buttons and their CLI subprocesses
    detector          \* DeviceDetector: its device set and lock, the monitor
                      \* thread and the UI thread that use them

\* the components exercised on their own
unit_vars == << prov, call, shell, detector >>
gui_state == << disk, rows, selected_index, csv_path, workflow_state,
                workflow_context, stop_requested, message_queue, start_btn,
                stop_btn, editing_enabled, workers >>
cli_state == << cli_file, cli >>
\* what FlashApp leaves alone, and what the GUI leaves alone
gui_vars == << gui_state, unit_vars >>
cli_vars == << cli_state, unit_vars >>
vars == << disk, rows, selected_index, csv_path, workflow_state,
           workflow_context, stop_requested, message_queue, start_btn,
           stop_btn, editing_enabled, workers, cli_file, cli, prov, call,
           shell, detector >>


\* ------------------------------------------------------------------------
\* Worker threads: one record per started thread
\* ------------------------------------------------------------------------
\* ProcessingReport as constructed at the top of _run_workflow
NewReport ==
    [success |-> FALSE, overall_success |-> FALSE,
     firmware_upload_success |-> FALSE, provisioning_success |-> FALSE,
     verification_success |-> FALSE, label_generated |-> FALSE]

\* a thread created by threading.Thread(target=self._run_workflow)
NewWorker ==
    [at |-> "begin", step |-> "upload", ctx_serial |-> None,
     entered |-> << >>, outcome |-> "running",
     upload |-> None, provisioning |-> None, verification |-> None,
     label |-> None,
     report |-> NewReport,
     update_result |-> None, save_result |-> None, marked_serial |-> None]

IsAlive(w) == w.at # "done"
AliveWorkers == {t \in 1..Len(workers) : IsAlive(workers[t])}

StateMsg(s) == [type |-> "state", state |-> s]
CompleteMsg == [type |-> "complete", state |-> None]
ErrorMsg    == [type |-> "error", state |-> None]

\* the step after `step`; the ledger update is the last one
NextStep(step) == Steps[StepIndex(step) + 1]

\* control reaches the stop check of the next step
Advance(w) == [w EXCEPT !.at = "chk", !.step = NextStep(w.step)]

\* "raise Exception(...)" caught by "except Exception as e": the report is
\* marked failed and the worker ends after posting the error message
Raised(w) ==
    [w EXCEPT !.at = "done", !.outcome = "error",
              !.report = [@ EXCEPT !.overall_success = FALSE]]

\* ------------------------------------------------------------------------
\* Initial state
\* ------------------------------------------------------------------------
InitGui ==
    /\ disk = InitDisk
    /\ rows = << >>
    /\ selected_index = 0
    /\ csv_path = None
    /\ workflow_state = "IDLE"
    /\ workflow_context = None
    /\ stop_requested = FALSE
    /\ message_queue = << >>
    /\ start_btn = TRUE
    /\ stop_btn = FALSE
    /\ editing_enabled = TRUE
    /\ workers = << >>

\* ------------------------------------------------------------------------
\* UI thread
\* ------------------------------------------------------------------------
\* CSVPanel.load_csv -> CSVManager.load: rows replaced in place, selection
\* reset and moved to the first unprogrammed row
load_csv(f) ==
    /\ rows' = disk[f]
    /\ selected_index' = select_next_unprogrammed(disk[f], 0)
    /\ csv_path' = f
    /\ UNCHANGED << disk, workflow_state, workflow_context, stop_requested,
                    message_queue, start_btn, stop_btn, editing_enabled,
                    workers, cli_vars >>

\* File > Open CSV... : the menu entry stays active during a run
OnOpenCsv(f) == load_csv(f)

\* the panel's Browse... button, disabled by set_editing_enabled(False)
BrowseCsv(f) ==
    /\ editing_enabled
    /\ load_csv(f)

\* the panel's Reload button
ReloadCsv ==
    /\ editing_enabled
    /\ csv_path # None
    /\ load_csv(csv_path)

\* CSVPanel._on_tree_select: the tree view is never disabled
OnTreeSelect(i) ==
    /\ i \in 1..Len(rows)
    /\ i # selected_index
    /\ selected_index' = select_row(rows, selected_index, i)
    /\ UNCHANGED << disk, rows, csv_path, workflow_state, workflow_context,
                    stop_requested, message_queue, start_btn, stop_btn,
                    editing_enabled, workers, cli_vars >>

\* CSVPanel._select_next_unprogrammed ("Next Unprogrammed" button)
SelectNextUnprogrammed ==
    /\ csv_path # None
    /\ select_next_unprogrammed(rows, selected_index) # selected_index
    /\ selected_index' = select_next_unprogrammed(rows, selected_index)
    /\ UNCHANGED << disk, rows, csv_path, workflow_state, workflow_context,
                    stop_requested, message_queue, start_btn, stop_btn,
                    editing_enabled, workers, cli_vars >>

\* MainWindow._on_start_programming, reached through the Start button, with
\* prerequisites valid and a row selected (otherwise it returns at once)
OnStartProgramming ==
    /\ start_btn
    /\ selected_index \in 1..Len(rows)
    /\ workflow_context' = rows[selected_index].serial_number
    /\ stop_requested' = FALSE
    /\ start_btn' = set_programming_state(TRUE).start
    /\ stop_btn' = set_programming_state(TRUE).stop
    /\ editing_enabled' = FALSE
    /\ workers' = Append(SelectSeq(workers, IsAlive), NewWorker)
    /\ UNCHANGED << disk, rows, selected_index, csv_path, workflow_state,
                    message_queue, cli_vars >>

\* MainWindow._on_stop_programming, reached through the Stop button
OnStopProgramming ==
    /\ stop_btn
    /\ Len(message_queue) < MaxQueue
    /\ stop_requested' = TRUE
    /\ message_queue' = Append(message_queue, StateMsg("STOPPED"))
    /\ UNCHANGED << disk, rows, selected_index, csv_path, workflow_state,
                    workflow_context, start_btn, stop_btn, editing_enabled,
                    workers, cli_vars >>

\* the part of the UI state that queued messages change
GuiState ==
    [workflow_state |-> workflow_state, workflow_context |-> workflow_context,
     start_btn |-> start_btn, stop_btn |-> stop_btn,
     editing_enabled |-> editing_enabled, selected_index |-> selected_index]

\* MainWindow._on_workflow_complete(True)
on_workflow_complete(g, auto_select_next) ==
    [g EXCEPT !.start_btn = set_programming_state(FALSE).start,
              !.stop_btn = set_programming_state(FALSE).stop,
              !.editing_enabled = TRUE,
              !.selected_index =
                    IF auto_select_next
                    THEN select_next_unprogrammed(rows, @) ELSE @,
              !.workflow_context = None,
              !.workflow_state = "IDLE"]

\* MainWindow._on_workflow_error
on_workflow_error(g) ==
    [g EXCEPT !.start_btn = set_programming_state(FALSE).start,
              !.stop_btn = set_programming_state(FALSE).stop,
              !.editing_enabled = TRUE,
              !.workflow_state = "ERROR",
              !.workflow_context = None]

\* one message handled by _process_message_queue
HandleMessage(msg, g, auto_select_next) ==
    CASE msg.type = "state"    -> [g EXCEPT !.workflow_state = msg.state]
      [] msg.type = "complete" -> on_workflow_complete(g, auto_select_next)
      [] msg.type = "error"    -> on_workflow_error(g)

RECURSIVE Drain(_, _, _)
Drain(q, g, auto_select_next) ==
    IF q = << >> THEN g
    ELSE Drain(Tail(q), HandleMessage(Head(q), g, auto_select_next),
               auto_select_next)

\* MainWindow._process_message_queue: one timer tick handles every pending
\* message in queue order; with the context discarded by the completion or
\* error handler the finished thread's results are gone
ProcessMessageQueue ==
    /\ message_queue # << >>
    /\ \E auto_select_next \in BOOLEAN :
        LET g == Drain(message_queue, GuiState, auto_select_next) IN
        /\ workflow_state' = g.workflow_state
        /\ workflow_context' = g.workflow_context
        /\ start_btn' = g.start_btn
        /\ stop_btn' = g.stop_btn
        /\ editing_enabled' = g.editing_enabled
        /\ selected_index' = g.selected_index
    /\ message_queue' = << >>
    /\ workers' = IF \E i \in 1..Len(message_queue) :
                        message_queue[i].type \in {"complete", "error"}
                   THEN SelectSeq(workers, IsAlive)
                   ELSE workers
    /\ UNCHANGED << disk, rows, csv_path, stop_requested, cli_vars >>


\* ------------------------------------------------------------------------
\* Worker thread: MainWindow._run_workflow
\* ------------------------------------------------------------------------
WorkerFrame == << disk, rows, selected_index, csv_path, workflow_state,
                  workflow_context, stop_requested, start_btn, stop_btn,
                  editing_enabled, cli_vars >>
LedgerFrame == << disk, rows, selected_index, csv_path >>
UiFrame == << workflow_state, workflow_context, stop_requested, start_btn,
              stop_btn, editing_enabled, cli_vars >>

SetWorker(t, w) == workers' = [workers EXCEPT ![t] = w]

\* the worker ends through the except branch: error message posted last
RaiseIn(t, w) ==
    /\ SetWorker(t, Raised(w))
    /\ message_queue' = Append(message_queue, ErrorMsg)

\* "ctx = self.workflow_context" and the construction of the report; a
\* missing context makes the thread die outside the try block
Begin(t) ==
    /\ workers[t].at = "begin"
    /\ IF workflow_context = None
       THEN SetWorker(t, [workers[t] EXCEPT !.at = "done", !.outcome = "crashed"])
       ELSE SetWorker(t, [workers[t] EXCEPT !.at = "chk",
                                            !.ctx_serial = workflow_context])
    /\ UNCHANGED << message_queue, WorkerFrame >>

\* "if self.stop_requested: return" before each of the seven steps
CheckStop(t) ==
    /\ workers[t].at = "chk"
    /\ IF StopCheck(stop_requested)
       THEN SetWorker(t, [workers[t] EXCEPT !.at = "done", !.outcome = "stopped"])
       ELSE SetWorker(t, [workers[t] EXCEPT !.at = "put"])
    /\ UNCHANGED << message_queue, WorkerFrame >>

\* self._queue_message({"type": "state", "state": ...}) of the step
PostState(t) ==
    /\ workers[t].at = "put"
    /\ message_queue' = Append(message_queue, StateMsg(StepState(workers[t].step)))
    /\ SetWorker(t, [workers[t] EXCEPT
            !.at = "run",
            !.entered = Append(@, StepState(workers[t].step))])
    /\ UNCHANGED WorkerFrame

\* Step 1: uploader.upload and the test of its result
RunUpload(t) ==
    /\ workers[t].at = "run" /\ workers[t].step = "upload"
    /\ \E success \in BOOLEAN :
        LET w == [workers[t] EXCEPT
                    !.upload = IF success THEN "ok" ELSE "fail",
                    !.report = [@ EXCEPT !.firmware_upload_success = success]]
        IN IF UploadRaises(success)
           THEN RaiseIn(t, w)
           ELSE SetWorker(t, Advance(w)) /\ UNCHANGED message_queue
    /\ UNCHANGED WorkerFrame

\* Step 2: device_detector.wait_for_serial_port; no port raises
RunWaitForSerial(t) ==
    /\ workers[t].at = "run" /\ workers[t].step = "serial"
    /\ \E port \in {None, "port"} :
        IF port = None
        THEN RaiseIn(t, workers[t])
        ELSE SetWorker(t, Advance(workers[t])) /\ UNCHANGED message_queue
    /\ UNCHANGED WorkerFrame

\* Step 3: provisioner.provision and the test of its result
RunProvisioning(t) ==
    /\ workers[t].at = "run" /\ workers[t].step = "prov"
    /\ \E success \in BOOLEAN :
        LET w == [workers[t] EXCEPT
                    !.provisioning = IF success THEN "ok" ELSE "fail",
                    !.report = [@ EXCEPT !.provisioning_success = success]]
        IN IF ProvisioningRaises(success)
           THEN RaiseIn(t, w)
           ELSE SetWorker(t, Advance(w)) /\ UNCHANGED message_queue
    /\ UNCHANGED WorkerFrame

\* Step 4: "provisioner.port or provisioner.reboot_and_reconnect_wait_ready()"
\* (the provisioner may or may not still hold a port), then Verifier.verify
\* and the test of its result
RunVerification(t) ==
    /\ workers[t].at = "run" /\ workers[t].step = "verify"
    /\ \E has_port \in BOOLEAN, reconnected \in BOOLEAN, sysinfo \in BOOLEAN,
          checks \in VerificationChecks :
        IF ~has_port /\ ~reconnected
        THEN RaiseIn(t, workers[t])
        ELSE LET status == VerifyStatus(sysinfo, checks)
                 w == [workers[t] EXCEPT
                        !.verification = status,
                        !.report = [@ EXCEPT !.verification_success =
                                                VerificationSuccess(status)]]
             IN IF ~VerificationSuccess(status)
                THEN RaiseIn(t, w)
                ELSE SetWorker(t, Advance(w)) /\ UNCHANGED message_queue
    /\ UNCHANGED WorkerFrame

\* Step 5: label_gen.generate; a failure is logged
RunLabel(t) ==
    /\ workers[t].at = "run" /\ workers[t].step = "label"
    /\ \E success \in BOOLEAN :
        LET w == [workers[t] EXCEPT
                    !.label = IF success THEN "ok" ELSE "fail",
                    !.report = [@ EXCEPT !.label_generated = success]]
        IN IF LabelRaises(success)
           THEN RaiseIn(t, w)
           ELSE SetWorker(t, Advance(w)) /\ UNCHANGED message_queue
    /\ UNCHANGED WorkerFrame

\* Step 6: report.success = True, report.overall_success = True, archive
RunReport(t) ==
    /\ workers[t].at = "run" /\ workers[t].step = "report"
    /\ SetWorker(t, Advance([workers[t] EXCEPT
            !.report = [@ EXCEPT !.success = TRUE, !.overall_success = TRUE]]))
    /\ UNCHANGED << message_queue, WorkerFrame >>

\* Step 7a: self.csv_manager.select_by_serial(ctx.serial_number)
RunCsvSelect(t) ==
    /\ workers[t].at = "run" /\ workers[t].step = "csv"
    /\ selected_index' = select_by_serial(rows, selected_index, workers[t].ctx_serial)
    /\ SetWorker(t, [workers[t] EXCEPT !.at = "update"])
    /\ UNCHANGED << disk, rows, csv_path, message_queue, UiFrame >>

\* Step 7b: self.csv_manager.update_selected_row(..., mark_programmed=True)
RunCsvUpdate(t) ==
    /\ workers[t].at = "update"
    /\ rows' = update_selected_row(rows, selected_index)
    /\ IF selected_index = 0
       THEN SetWorker(t, [workers[t] EXCEPT !.at = "completed",
                                            !.update_result = "fail"])
       ELSE SetWorker(t, [workers[t] EXCEPT
                !.at = "save",
                !.update_result = "ok",
                !.marked_serial = rows[selected_index].serial_number])
    /\ UNCHANGED << disk, selected_index, csv_path, message_queue, UiFrame >>

\* Step 7c: self.csv_manager.save(): the loaded rows overwrite the file, or
\* the file cannot be opened and stays as it was
RunCsvSave(t) ==
    /\ workers[t].at = "save"
    /\ \E saved \in BOOLEAN :
        /\ disk' = IF saved /\ csv_path # None
                   THEN [disk EXCEPT ![csv_path] = rows] ELSE disk
        /\ SetWorker(t, [workers[t] EXCEPT
                !.at = "completed",
                !.save_result = IF saved /\ csv_path # None THEN "ok" ELSE "fail"])
    /\ UNCHANGED << rows, selected_index, csv_path, message_queue, UiFrame >>

\* self._queue_message({"type": "state", "state": WorkflowState.COMPLETED})
PostCompleted(t) ==
    /\ workers[t].at = "completed"
    /\ message_queue' = Append(message_queue, StateMsg("COMPLETED"))
    /\ SetWorker(t, [workers[t] EXCEPT !.at = "complete",
                                       !.entered = Append(@, "COMPLETED")])
    /\ UNCHANGED WorkerFrame

\* self._queue_message({"type": "complete", "success": True}): the last
\* statement of the thread
PostComplete(t) ==
    /\ workers[t].at = "complete"
    /\ message_queue' = Append(message_queue, CompleteMsg)
    /\ SetWorker(t, [workers[t] EXCEPT !.at = "done", !.outcome = "complete"])
    /\ UNCHANGED WorkerFrame

Threads == 1..Len(workers)

\* ------------------------------------------------------------------------
\* FlashApp: serial_manager.py and production_programming
\* ------------------------------------------------------------------------
\* the ledger files production_programming may be pointed at: rows with
\* distinct serial numbers, any of them already programmed
CliSerial(i) == "SN-" \o ToString(i)
CliLedgers ==
    { [i \in 1..CliRows |-> Row(CliSerial(i), p[i])] :
        p \in [1..CliRows -> BOOLEAN] }

\* SerialManager.get_serial_numbers: the rows, or None when the file cannot
\* be read; both callers test the result only with "not serial_numbers", so
\* None is the empty list here
get_serial_numbers(file, readable) == IF readable THEN file ELSE << >>

\* SerialManager.get_next_available_serial
get_next_available_serial(file, readable) ==
    LET serial_numbers == get_serial_numbers(file, readable) IN
    IF serial_numbers = << >> THEN None
    ELSE IF FirstUnprogrammed(serial_numbers) = 0 THEN None
    ELSE serial_numbers[FirstUnprogrammed(serial_numbers)].serial_number

\* index of the first row with this serial number and an empty date
FirstMatch(file, sn) ==
    IF \E i \in 1..Len(file) : file[i].serial_number = sn /\ ~is_programmed(file[i])
    THEN CHOOSE i \in 1..Len(file) :
            /\ file[i].serial_number = sn /\ ~is_programmed(file[i])
            /\ \A j \in 1..(i-1) :
                    ~(file[j].serial_number = sn /\ ~is_programmed(file[j]))
    ELSE 0

\* how opening and rewriting the file ends: written completely, not opened
\* at all, or cut short after `kept` complete rows
WriteOutcomes(n) ==
    {[kind |-> "ok", kept |-> n], [kind |-> "open_fails", kept |-> n]}
    \cup {[kind |-> "write_fails", kept |-> k] : k \in 0..(n-1)}

update_serial_number_in_csv_unmarked(file, sn, readable, write) ==
    [file |-> file, ok |-> TRUE]

\* SerialManager.update_serial_number_in_csv: the file afterwards and the
\* returned flag
update_serial_number_in_csv(file, sn, readable, write) ==
    LET serial_numbers == get_serial_numbers(file, readable) IN
    IF serial_numbers = << >>
    THEN [file |-> file, ok |-> FALSE]
    ELSE IF FirstMatch(serial_numbers, sn) = 0
    THEN [file |-> file, ok |-> FALSE]
    ELSE LET updated == [serial_numbers EXCEPT
                            ![FirstMatch(serial_numbers, sn)] = Row(sn, TRUE)]
         IN CASE write.kind = "ok" -> [file |-> updated, ok |-> TRUE]
              [] write.kind = "open_fails" -> [file |-> file, ok |-> FALSE]
              [] write.kind = "write_fails" ->
                    [file |-> SubSeq(updated, 1, write.kept), ok |-> FALSE]

\* monitor_serial_port: what the boot banner showed (a serial number or
\* None, a firmware version or not) against the expected serial number
monitor_serial_port(banner_serial, banner_firmware, target_serial) ==
    IF banner_serial # None /\ banner_firmware
    THEN IF target_serial # None /\ banner_serial # target_serial
         THEN [verified |-> FALSE, detected_serial |-> banner_serial]
         ELSE [verified |-> TRUE, detected_serial |-> banner_serial]
    ELSE [verified |-> FALSE, detected_serial |-> banner_serial]

after_flash_lenient(env, serial_number, verify, reprogram) == TRUE

\* deploy_firmware after the flashing tool reported success
after_flash(env, serial_number, verify, reprogram) ==
    IF ~verify THEN TRUE
    ELSE IF ~env.new_port THEN TRUE
    ELSE LET m == monitor_serial_port(env.banner_serial, env.banner_firmware,
                                      serial_number)
         IN IF m.verified THEN TRUE
            ELSE IF m.detected_serial # None /\ serial_number # None
                    /\ m.detected_serial # serial_number
                 THEN reprogram
                 ELSE TRUE

\* deploy_firmware: ELF through the flashing tool first, UF2 as fallback
deploy_firmware(env, serial_number, verify, reprogram) ==
    IF ~env.uf2_found THEN FALSE
    ELSE IF env.elf_exists /\ env.flash_elf
    THEN after_flash(env, serial_number, verify, reprogram)
    ELSE IF env.flash_uf2
    THEN after_flash(env, serial_number, verify, reprogram)
    ELSE FALSE

\* what deploy_firmware meets: files, tool results, port and banner
DeployEnvs ==
    [uf2_found : BOOLEAN, elf_exists : BOOLEAN, flash_elf : BOOLEAN,
     flash_uf2 : BOOLEAN, new_port : BOOLEAN,
     banner_serial : {None} \cup {CliSerial(i) : i \in 1..CliRows},
     banner_firmware : BOOLEAN]

DeployGateOpen(success) == TRUE

\* "if not success: ... return False" after deploy_firmware
DeployGate(success) == success

\* no provision call and no function call in progress
NoCall == [fn |-> "none"]
InitUnitsIdle ==
    /\ prov = [pc |-> "idle"]
    /\ call = NoCall
    /\ shell = << >>
    /\ detector = [_lock |-> "free"]

IdleRun ==
    [pc |-> "idle", serial_number |-> None, verify |-> TRUE,
     reprogram |-> FALSE, failed_step |-> None, deploy |-> None,
     update |-> None, result |-> None, file_at_start |-> << >>]

InitCli ==
    /\ cli_file \in CliLedgers
    /\ cli = [run |-> IdleRun, history |-> << >>]

InitCliIdle ==
    /\ cli_file = << >>
    /\ cli = [run |-> IdleRun, history |-> << >>]

CliAt(pc) == cli.run.pc = pc

\* the run returns: its serial number and result join the history
Returned(run, result) ==
    [run |-> [run EXCEPT !.pc = "done", !.result = result],
     history |-> Append(cli.history,
                        [serial_number |-> run.serial_number,
                         success |-> result = "success",
                         updated |-> run.update = "ok"])]

\* "return False" at the named step
FailAt(step) ==
    cli' = Returned([cli.run EXCEPT !.failed_step = step], "failure")

GoTo(pc) == cli' = [cli EXCEPT !.run.pc = pc]

\* production_programming is called with the --skip-verify / --reprogram
\* settings of this invocation
CliStart ==
    /\ cli.run.pc \in {"idle", "done"}
    /\ Len(cli.history) < MaxCliRuns
    /\ \E verify \in BOOLEAN, reprogram \in BOOLEAN :
        cli' = [cli EXCEPT !.run = [IdleRun EXCEPT
                    !.pc = "lookup", !.verify = verify,
                    !.reprogram = reprogram, !.file_at_start = cli_file]]
    /\ UNCHANGED << cli_file, gui_vars >>

\* STEP 1: serial_manager.get_next_available_serial(csv_file)
CliLookup ==
    /\ CliAt("lookup")
    /\ \E readable \in BOOLEAN :
        LET sn == get_next_available_serial(cli_file, readable) IN
        IF sn = None THEN FailAt("lookup")
        ELSE cli' = [cli EXCEPT !.run.pc = "header", !.run.serial_number = sn]
    /\ UNCHANGED << cli_file, gui_vars >>

\* STEP 2 clean, STEP 3 generate_serial_header
CliHeader ==
    /\ CliAt("header")
    /\ \E ok \in BOOLEAN : IF ok THEN GoTo("configure") ELSE FailAt("header")
    /\ UNCHANGED << cli_file, gui_vars >>

\* STEP 3: build_manager.configure()
CliConfigure ==
    /\ CliAt("configure")
    /\ \E ok \in BOOLEAN : IF ok THEN GoTo("build") ELSE FailAt("configure")
    /\ UNCHANGED << cli_file, gui_vars >>

\* STEP 4: build_manager.build()
CliBuild ==
    /\ CliAt("build")
    /\ \E ok \in BOOLEAN : IF ok THEN GoTo("image") ELSE FailAt("build")
    /\ UNCHANGED << cli_file, gui_vars >>

\* STEP 5: get_uf2_path and modify_uf2_with_serial
CliPrepareImage ==
    /\ CliAt("image")
    /\ \E uf2_found \in BOOLEAN, modified \in BOOLEAN :
        IF uf2_found /\ modified THEN GoTo("deploy") ELSE FailAt("image")
    /\ UNCHANGED << cli_file, gui_vars >>

\* STEP 6: deploy_firmware and the test of its result
CliDeploy ==
    /\ CliAt("deploy")
    /\ \E env \in DeployEnvs :
        LET success == deploy_firmware(env, cli.run.serial_number,
                                       cli.run.verify, cli.run.reprogram)
            run == [cli.run EXCEPT !.deploy = IF success THEN "ok" ELSE "fail"]
        IN IF DeployGate(success)
           THEN cli' = [cli EXCEPT !.run = [run EXCEPT !.pc = "update"]]
           ELSE cli' = Returned([run EXCEPT !.failed_step = "deploy"], "failure")
    /\ UNCHANGED << cli_file, gui_vars >>

\* STEP 8 and 9: update_serial_number_in_csv; a failed update is a warning
\* and the run still returns True
CliUpdate ==
    /\ CliAt("update")
    /\ \E readable \in BOOLEAN, write \in WriteOutcomes(Len(cli_file)) :
        LET r == update_serial_number_in_csv(cli_file, cli.run.serial_number,
                                             readable, write)
        IN /\ cli_file' = r.file
           /\ cli' = Returned([cli.run EXCEPT
                        !.update = IF r.ok THEN "ok" ELSE "fail"], "success")
    /\ UNCHANGED gui_vars

NextCLI ==
    \/ CliStart
    \/ CliLookup
    \/ CliHeader
    \/ CliConfigure
    \/ CliBuild
    \/ CliPrepareImage
    \/ CliDeploy
    \/ CliUpdate

\* the GUI stays as constructed while production_programming runs
InitCLI == InitGui /\ InitCli /\ InitUnitsIdle

SpecCLI == InitCLI /\ [][NextCLI]_vars

Init == InitGui /\ InitCliIdle /\ InitUnitsIdle

Next ==
    \/ \E f \in FileIds : OnOpenCsv(f)
    \/ \E f \in FileIds : BrowseCsv(f)
    \/ ReloadCsv
    \/ \E i \in 1..Len(rows) : OnTreeSelect(i)
    \/ SelectNextUnprogrammed
    \/ OnStartProgramming
    \/ OnStopProgramming
    \/ ProcessMessageQueue
    \/ \E t \in Threads : Begin(t)
    \/ \E t \in Threads : CheckStop(t)
    \/ \E t \in Threads : PostState(t)
    \/ \E t \in Threads : RunUpload(t)
    \/ \E t \in Threads : RunWaitForSerial(t)
    \/ \E t \in Threads : RunProvisioning(t)
    \/ \E t \in Threads : RunVerification(t)
    \/ \E t \in Threads : RunLabel(t)
    \/ \E t \in Threads : RunReport(t)
    \/ \E t \in Threads : RunCsvSelect(t)
    \/ \E t \in Threads : RunCsvUpdate(t)
    \/ \E t \in Threads : RunCsvSave(t)
    \/ \E t \in Threads : PostCompleted(t)
    \/ \E t \in Threads : PostComplete(t)

Spec == Init /\ [][Next]_vars

\* ------------------------------------------------------------------------
\* SerialProvisioner (core/serial_provisioner.py)
\* ------------------------------------------------------------------------
\* range(10) of the connect loops of provision and
\* reboot_and_reconnect_wait_ready
MaxConnectAttempts == 10
\* "attempts = 3" of the PROV STATUS loop
MaxStatusAttempts == 3
\* CONFIG.MAX_RESET_RETRIES
MAX_RESET_RETRIES == 3
\* serial exceptions raised inside one wait_for_ready
MaxSerialExceptions == 2

ConnectLoopUnbounded(attempt) == TRUE

\* "for attempt in range(10)": another attempt is made
ConnectLoopContinues(attempt) == attempt < MaxConnectAttempts

StatusLoopStopsNever(i, status_info) == i >= MaxStatusAttempts

\* the PROV STATUS loop ends: range(attempts) is used up, or the reply
\* parsed last holds a serial number and a region
StatusLoopStops(i, status_info) ==
    \/ i >= MaxStatusAttempts
    \/ (status_info.got /\ status_info.serial_number # "absent"
                        /\ status_info.region # "absent")

\* "retries = max_retries or CONFIG.MAX_RESET_RETRIES"; 0 stands for None
reconnect_retries(max_retries) ==
    IF max_retries = 0 THEN MAX_RESET_RETRIES ELSE max_retries

\* SerialProvisioner.reconnect: the attempts made when the first
\* `failures` connection attempts fail
reconnect_attempts(max_retries, failures) ==
    IF failures < reconnect_retries(max_retries)
    THEN failures + 1
    ELSE reconnect_retries(max_retries)

\* CONFIG.REGION_CODES and the region texts a device may report
REGION_CODES == << "EU", "US" >>
RegionTexts == {"absent", "EU", "US", "EU-US", "XX"}
SerialTexts == {"absent", "SN-1", "SN-2"}

\* "code in val"
CodeIn(code, val) ==
    \/ val = code
    \/ val = "EU-US" /\ code \in {"EU", "US"}

\* _parse_status: the region text becomes the first region code it holds
NormalizeRegion(val) ==
    IF \E i \in 1..Len(REGION_CODES) : CodeIn(REGION_CODES[i], val)
    THEN REGION_CODES[CHOOSE i \in 1..Len(REGION_CODES) :
            /\ CodeIn(REGION_CODES[i], val)
            /\ \A j \in 1..(i-1) : ~CodeIn(REGION_CODES[j], val)]
    ELSE val

\* _parse_status of a non-empty reply: always holds the key 'raw'
parse_status(sn_text, region_text) ==
    [got |-> TRUE, serial_number |-> sn_text,
     region |-> NormalizeRegion(region_text)]

\* "status_info = {}"
NoStatusInfo == [got |-> FALSE, serial_number |-> "absent", region |-> "absent"]

CompareAcceptsAnySerial(status_info, serial_number, region) ==
    IF ~status_info.got
    THEN [status |-> "COMMAND_ERROR", field |-> None, value |-> None]
    ELSE IF status_info.region # region
    THEN [status |-> "VERIFICATION_FAILED", field |-> "region",
          value |-> status_info.region]
    ELSE [status |-> "SUCCESS", field |-> None, value |-> None]

\* provision_device after the PROV STATUS loop: the status returned and the
\* field and value its message names
CompareStatus(status_info, serial_number, region) ==
    IF ~status_info.got
    THEN [status |-> "COMMAND_ERROR", field |-> None, value |-> None]
    ELSE IF status_info.serial_number # serial_number
    THEN [status |-> "VERIFICATION_FAILED", field |-> "serial_number",
          value |-> status_info.serial_number]
    ELSE IF status_info.region # region
    THEN [status |-> "VERIFICATION_FAILED", field |-> "region",
          value |-> status_info.region]
    ELSE [status |-> "SUCCESS", field |-> None, value |-> None]

\* DeviceDetector.wait_for_serial_port(exclude_ports=[old_port]) when the
\* device comes back under the name `name`: only a name that was neither
\* present at the call nor excluded is returned
wait_for_serial_port(name, present, exclude) ==
    IF name # None /\ name \notin present /\ name \notin exclude
    THEN name ELSE None

PortNames == {"ttyACM0", "ttyACM1"}

NoResult == [status |-> None, field |-> None, value |-> None]
Status(st) == [status |-> st, field |-> None, value |-> None]

\* a call on a SerialProvisioner whose port is `port`
NewProv(fn, port) ==
    [pc |-> "idle", fn |-> fn, port |-> port, target |-> None,
     serial_number |-> "SN-1", region |-> "EU", ready_banner |-> FALSE,
     attempts |-> 0, connects |-> 0, ready_reconnects |-> 0,
     polls |-> 0, complete_at |-> 0, polled |-> FALSE,
     status_info |-> NoStatusInfo, result |-> NoResult,
     old_port |-> None, sent_reboot |-> FALSE, reappear |-> None,
     new_port |-> None, banner |-> FALSE, opened |-> FALSE,
     wait_broken |-> FALSE, reboot_result |-> "pending",
     max_retries |-> 0, reconnect_made |-> 0,
     step4 |-> "none", queries |-> 0]

InitProv ==
    /\ prov = NewProv("none", None) /\ call = NoCall /\ shell = << >>
    /\ detector = [_lock |-> "free"]

ProvFrame == << gui_state, cli_state, call, shell, detector >>

ProvIdle == prov.pc \in {"idle", "done"}

\* SerialProvisioner.provision(port, serial_number, region_code) is called
ProvisionCall ==
    /\ ProvIdle
    /\ \E region \in {"EU", "US"}, ready_banner \in BOOLEAN :
        prov' = [NewProv("provision", None) EXCEPT
                    !.pc = "connect", !.target = "ttyACM0",
                    !.region = region, !.ready_banner = ready_banner]
    /\ UNCHANGED ProvFrame

\* reboot_and_reconnect_wait_ready() is called directly (Step 4 of the
\* workflow), connected or not
RebootCall ==
    /\ ProvIdle
    /\ \E port \in {None, "ttyACM0"} :
        prov' = [NewProv("reboot", port) EXCEPT !.pc = "reboot"]
    /\ UNCHANGED ProvFrame

\* reconnect(max_retries) is called; the first `failures` attempts fail
ReconnectCall ==
    /\ ProvIdle
    /\ \E port \in {None, "ttyACM0"}, max_retries \in 0..2,
          failures \in 0..MAX_RESET_RETRIES :
        prov' = [NewProv("reconnect", port) EXCEPT
                    !.pc = "done", !.max_retries = max_retries,
                    !.reconnect_made =
                        IF port = None THEN 0
                        ELSE reconnect_attempts(max_retries, failures),
                    !.port = IF port # None
                                /\ failures < reconnect_retries(max_retries)
                             THEN port ELSE None]
    /\ UNCHANGED ProvFrame

\* one pass of the connect loop of provision
ProvConnect ==
    /\ prov.pc = "connect"
    /\ IF ConnectLoopContinues(prov.attempts)
       THEN \E ok \in BOOLEAN :
            prov' = [prov EXCEPT
                        !.attempts = @ + 1, !.connects = @ + 1,
                        !.port = IF ok THEN prov.target ELSE None,
                        !.pc = IF ok THEN "ready1" ELSE "connect"]
       ELSE prov' = [prov EXCEPT !.result = Status("PORT_ERROR"),
                                 !.pc = "done"]
    /\ UNCHANGED ProvFrame

\* wait_for_ready returned `ready`: provision goes on whatever it is,
\* reboot_and_reconnect_wait_ready disconnects and gives up when it is False
ReadyReturns(p, ready) ==
    IF p.pc = "ready1" THEN [p EXCEPT !.pc = "commands"]
    ELSE IF ready THEN [p EXCEPT !.pc = "done", !.reboot_result = p.new_port]
    ELSE [p EXCEPT !.pc = "done", !.port = None, !.reboot_result = None]

\* wait_for_ready: the banner is read, the timeout expires, or the port
\* raises and reconnect(max_retries=1) is tried
WaitForReady ==
    /\ prov.pc \in {"ready1", "ready2"}
    /\ LET emits == IF prov.pc = "ready1" THEN prov.ready_banner
                    ELSE prov.banner
       IN IF prov.port = None
          THEN prov' = ReadyReturns(prov, FALSE)
          ELSE \/ /\ emits
                  /\ prov' = ReadyReturns(prov, TRUE)
               \/ /\ ~emits
                  /\ prov' = ReadyReturns(prov, FALSE)
               \/ /\ prov.ready_reconnects < MaxSerialExceptions
                  /\ \E ok \in BOOLEAN :
                        LET p == [prov EXCEPT
                                    !.ready_reconnects = @ + 1,
                                    !.connects = @ + reconnect_attempts(1, 0)]
                        IN IF ok THEN prov' = p
                           ELSE prov' = ReadyReturns(
                                    [p EXCEPT !.port = None,
                                              !.wait_broken = TRUE], FALSE)
    /\ UNCHANGED ProvFrame

\* provision_device up to PROV SET_REGION
ProvCommands ==
    /\ prov.pc = "commands"
    /\ IF prov.port = None
       THEN prov' = [prov EXCEPT !.result = Status("PORT_ERROR"),
                                 !.pc = "reboot"]
       ELSE \E failing \in {"none", "unlock", "set_sn", "set_region"} :
            IF failing # "none"
            THEN prov' = [prov EXCEPT !.result = Status("COMMAND_ERROR"),
                                      !.pc = "reboot"]
            ELSE prov' = [prov EXCEPT !.pc = "status"]
    /\ UNCHANGED ProvFrame

\* one pass of the PROV STATUS loop, or the comparison after it
ProvStatus ==
    /\ prov.pc = "status"
    /\ IF StatusLoopStops(prov.polls, prov.status_info)
       THEN prov' = [prov EXCEPT
                        !.result = CompareStatus(prov.status_info,
                                        prov.serial_number, prov.region),
                        !.polled = TRUE, !.pc = "reboot"]
       ELSE \E replied \in BOOLEAN, sn \in SerialTexts, rg \in RegionTexts :
            LET info == IF replied THEN parse_status(sn, rg)
                        ELSE prov.status_info
                complete == replied /\ info.serial_number # "absent"
                                    /\ info.region # "absent"
            IN prov' = [prov EXCEPT
                    !.polls = @ + 1, !.status_info = info,
                    !.complete_at = IF complete /\ @ = 0
                                    THEN prov.polls + 1 ELSE @]
    /\ UNCHANGED ProvFrame

\* reboot_and_reconnect_wait_ready sends REBOOT on the open port
RebootSend ==
    /\ prov.pc = "reboot"
    /\ prov' = [prov EXCEPT !.old_port = prov.port,
                            !.sent_reboot = (prov.port # None),
                            !.attempts = 0, !.pc = "waitport"]
    /\ UNCHANGED ProvFrame

\* the wait for a serial port: the device comes back as `name` (or not at
\* all) and will or will not print its ready banner; `listed` is whether the
\* old port is still listed when the wait starts
RebootWaitPort ==
    /\ prov.pc = "waitport"
    /\ \E name \in PortNames \cup {None}, listed \in BOOLEAN,
          banner \in BOOLEAN :
        LET present == IF listed /\ prov.old_port # None
                       THEN {prov.old_port} ELSE {}
            exclude == IF prov.old_port # None THEN {prov.old_port} ELSE {}
            new_port == wait_for_serial_port(name, present, exclude)
        IN prov' = [prov EXCEPT
                !.reappear = name, !.banner = banner,
                !.new_port = new_port,
                !.reboot_result = IF new_port = None THEN None ELSE @,
                !.pc = IF new_port = None THEN "done" ELSE "connect2"]
    /\ UNCHANGED ProvFrame

\* one pass of the connect loop of reboot_and_reconnect_wait_ready
RebootConnect ==
    /\ prov.pc = "connect2"
    /\ IF ConnectLoopContinues(prov.attempts)
       THEN \E ok \in BOOLEAN :
            prov' = [prov EXCEPT
                        !.attempts = @ + 1, !.connects = @ + 1,
                        !.port = IF ok THEN prov.new_port ELSE None,
                        !.opened = ok,
                        !.pc = IF ok THEN "peek" ELSE "connect2"]
       ELSE prov' = [prov EXCEPT !.reboot_result = None, !.pc = "done"]
    /\ UNCHANGED ProvFrame

\* peek_for_ready(1.0): an early banner ends the call, else wait_for_ready
RebootPeek ==
    /\ prov.pc = "peek"
    /\ \E seen \in BOOLEAN :
        /\ seen => prov.banner
        /\ prov' = IF seen
                   THEN [prov EXCEPT !.reboot_result = prov.new_port,
                                     !.pc = "done"]
                   ELSE [prov EXCEPT !.pc = "ready2"]
    /\ UNCHANGED ProvFrame

\* MainWindow._run_workflow, Step 4, after a provision call that returned
\* SUCCESS: "provisioner.port or reboot_and_reconnect_wait_ready()" takes
\* the provisioner's port when it has one and makes the call otherwise
Step4Verification ==
    /\ prov.pc = "done"
    /\ prov.fn = "provision"
    /\ prov.result.status = "SUCCESS"
    /\ prov.step4 = "none"
    /\ IF prov.port # None
       THEN prov' = [prov EXCEPT !.step4 = "verify"]
       ELSE prov' = [NewProv("reboot", None) EXCEPT
                        !.pc = "reboot", !.step4 = "fallback"]
    /\ UNCHANGED ProvFrame

\* the call made by Step 4 returned: without a port the step raises and the
\* run ends in ERROR
Step4ReconnectReturned ==
    /\ prov.pc = "done"
    /\ prov.step4 = "fallback"
    /\ prov' = [prov EXCEPT !.step4 = IF prov.reboot_result = None
                                      THEN "error" ELSE "verify"]
    /\ UNCHANGED ProvFrame

\* Verifier.verify on the provisioner: SYSINFO is written to the open port,
\* and NETINFO when SYSINFO was answered; a failed verification raises and
\* the run ends in ERROR
VerifierVerify ==
    /\ prov.step4 = "verify"
    /\ IF prov.port = None
       THEN prov' = [prov EXCEPT !.step4 = "error"]
       ELSE \E sysinfo \in BOOLEAN, success \in BOOLEAN :
            prov' = [prov EXCEPT
                        !.queries = IF sysinfo THEN 2 ELSE 1,
                        !.step4 = IF sysinfo /\ success
                                  THEN "verified" ELSE "error"]
    /\ UNCHANGED ProvFrame

NextProv ==
    \/ ProvisionCall
    \/ RebootCall
    \/ ReconnectCall
    \/ ProvConnect
    \/ WaitForReady
    \/ ProvCommands
    \/ ProvStatus
    \/ RebootSend
    \/ RebootWaitPort
    \/ RebootConnect
    \/ RebootPeek
    \/ Step4Verification
    \/ Step4ReconnectReturned
    \/ VerifierVerify

InitProvisioner == InitGui /\ InitCliIdle /\ InitProv

SpecProv == InitProvisioner /\ [][NextProv]_vars

\* ------------------------------------------------------------------------
\* Single calls of the remaining functions: `call` holds the last call made,
\* its arguments, what it met and what it returned
\* ------------------------------------------------------------------------

UnitFrame == << gui_state, cli_state, prov, shell, detector >>

\* what deploy_firmware prints after the flashing tool reported success
after_flash_report(env, serial_number, verify, reprogram) ==
    IF ~verify THEN "verification_skipped"
    ELSE IF ~env.new_port THEN "no_port_warning"
    ELSE LET m == monitor_serial_port(env.banner_serial, env.banner_firmware,
                                      serial_number)
         IN IF m.verified THEN "verified"
            ELSE IF m.detected_serial # None /\ serial_number # None
                    /\ m.detected_serial # serial_number
                 THEN IF reprogram THEN "reprogram_warning"
                      ELSE "mismatch_error"
                 ELSE "timeout_warning"

\* the flashing tool reported success for the ELF or for the UF2 fallback
Flashed(env) ==
    env.uf2_found /\ ((env.elf_exists /\ env.flash_elf) \/ env.flash_uf2)

\* deploy_firmware(build_manager, serial_number=..., verify=..., reprogram=...)
CallDeployFirmware ==
    /\ call = NoCall
    /\ \E env \in DeployEnvs,
          serial_number \in {None} \cup {CliSerial(i) : i \in 1..CliRows},
          verify \in BOOLEAN, reprogram \in BOOLEAN :
        call' = [fn |-> "deploy_firmware", env |-> env,
                 serial_number |-> serial_number, verify |-> verify,
                 reprogram |-> reprogram,
                 result |-> deploy_firmware(env, serial_number, verify,
                                            reprogram),
                 report |-> IF Flashed(env)
                            THEN after_flash_report(env, serial_number,
                                                    verify, reprogram)
                            ELSE "not_flashed"]
    /\ UNCHANGED UnitFrame

\* flash_with_picotool(file): the tool is run when its executable is found;
\* `loads` is whether the tool then exits with code 0
flash_with_picotool(picotool_found, loads) ==
    [invoked |-> picotool_found, success |-> picotool_found /\ loads]

\* main() with --flash: the exit code and what was done on the way
main_flash(args) ==
    LET f == flash_with_picotool(args.picotool_found,
                                 args.path_exists /\ args.device_ok)
    IN IF f.success
       THEN IF args.skip_verify
            THEN [exit_code |-> 0, tool_invoked |-> TRUE,
                  waited_for_port |-> FALSE]
            ELSE [exit_code |-> 0, tool_invoked |-> TRUE,
                  waited_for_port |-> TRUE]
       ELSE [exit_code |-> 1, tool_invoked |-> f.invoked,
             waited_for_port |-> FALSE]

\* the command line and what main meets: whether the file given to --flash
\* exists, whether the tool is installed, whether a device takes the load
FlashArgs ==
    [path_exists : BOOLEAN, picotool_found : BOOLEAN, device_ok : BOOLEAN,
     skip_verify : BOOLEAN, new_port : BOOLEAN]

CallMainFlash ==
    /\ call = NoCall
    /\ \E args \in FlashArgs :
        call' = [fn |-> "main", args |-> args, result |-> main_flash(args)]
    /\ UNCHANGED UnitFrame

\* Verifier.verify(serial_number, region, firmware_version, hardware_version):
\* SYSINFO was obtained or not, and what the four checks found
CallVerify ==
    /\ call = NoCall
    /\ \E sysinfo \in BOOLEAN, checks \in VerificationChecks :
        call' = [fn |-> "verify", sysinfo |-> sysinfo, checks |-> checks,
                 status |-> VerifyStatus(sysinfo, checks)]
    /\ UNCHANGED UnitFrame

\* updates of one ledger row in a sitting
MaxUpdates == 3

CSV_REPROGRAM_PREFIX == "reprogram_"
ReprogramFields == {"_date", "_firmware", "_reason"}

\* f"{prefix}{count}{field}"
ReprogramColumn(count, fld) == CSV_REPROGRAM_PREFIX \o ToString(count) \o fld

\* k.startswith(CONFIG.CSV_REPROGRAM_PREFIX), for the column names a row of
\* the model can hold
StartsWithReprogramPrefix(k) ==
    \E n \in 1..(3 * MaxUpdates + 3), fld \in ReprogramFields :
        k = ReprogramColumn(n, fld)

\* CSVRow.reprogram_count: the extra columns whose name has the prefix
reprogram_count(row) ==
    Cardinality({k \in DOMAIN row.extra_columns :
                    StartsWithReprogramPrefix(k)})

\* CSVManager._handle_reprogram
handle_reprogram(row) ==
    LET count == reprogram_count(row) + 1
        date_col == ReprogramColumn(count, "_date")
        fw_col == ReprogramColumn(count, "_firmware")
        reason_col == ReprogramColumn(count, "_reason")
        cols == DOMAIN row.extra_columns \cup {date_col, fw_col, reason_col}
    IN [row EXCEPT !.extra_columns =
            [c \in cols |->
                IF c = date_col THEN row.date_programmed
                ELSE IF c = fw_col THEN row.firmware_version
                ELSE IF c = reason_col
                     THEN "Reprogrammed (" \o ToString(count) \o ")"
                ELSE row.extra_columns[c]]]

\* CSVManager.update_selected_row on the selected row, marking it programmed
\* at the time `now`
update_row(row, firmware_version, now) ==
    LET r == IF row.date_programmed # "" THEN handle_reprogram(row) ELSE row
    IN [r EXCEPT !.firmware_version = firmware_version,
                 !.date_programmed = now]

FirmwareVersions == {"1.0.0", "1.1.0"}
DateAt(n) == "2026-01-0" \o ToString(n)

\* a ledger row as loaded: programmed or not, with or without a column of
\* another kind
LoadedRows ==
    [date_programmed : {"", DateAt(1)}, firmware_version : {"", "1.0.0"},
     extra_columns : {<< >>, [c \in {"operator"} |-> "jd"]}]

\* update_selected_row: the first update of a row, or one more update of the
\* row updated last
CallUpdateSelectedRow ==
    /\ \E firmware_version \in FirmwareVersions :
        \/ /\ call = NoCall
           /\ \E row \in LoadedRows :
                call' = [fn |-> "update_selected_row", before |-> row,
                         row |-> update_row(row, firmware_version, DateAt(2)),
                         updates |-> 1,
                         k |-> IF row.date_programmed # "" THEN 1 ELSE 0]
        \/ /\ call.fn = "update_selected_row"
           /\ call.updates < MaxUpdates
           /\ call' = [call EXCEPT
                         !.before = call.row,
                         !.row = update_row(call.row, firmware_version,
                                            DateAt(call.updates + 2)),
                         !.updates = @ + 1,
                         !.k = @ + 1]
    /\ UNCHANGED UnitFrame

\* FirmwareUploader (core/firmware_uploader.py)
FIRMWARE_EXTENSIONS == {".elf", ".hex", ".uf2"}
MinFirmwareSize == 100
MaxFirmwareSize == 16777216

\* path.suffix.lower() for the suffixes of the model
Lower(ext) ==
    IF ext = ".UF2" THEN ".uf2" ELSE IF ext = ".ELF" THEN ".elf" ELSE ext

\* FirmwareUploader.verify_firmware: valid or not, and why not
verify_firmware(file) ==
    IF ~file.exists THEN [valid |-> FALSE, why |-> "not found"]
    ELSE IF ~file.is_file THEN [valid |-> FALSE, why |-> "not a file"]
    ELSE IF Lower(file.ext) \notin FIRMWARE_EXTENSIONS
    THEN [valid |-> FALSE, why |-> "invalid extension"]
    ELSE IF file.size < MinFirmwareSize
    THEN [valid |-> FALSE, why |-> "too small"]
    ELSE IF file.size > MaxFirmwareSize
    THEN [valid |-> FALSE, why |-> "too large"]
    ELSE [valid |-> TRUE, why |-> "valid"]

\* FirmwareUploader.upload: the status returned and whether picotool was run
upload(picotool_exists, file, tool) ==
    IF ~picotool_exists
    THEN [status |-> "PICOTOOL_NOT_FOUND", invoked |-> FALSE]
    ELSE IF ~verify_firmware(file).valid
    THEN [status |-> "FIRMWARE_NOT_FOUND", invoked |-> FALSE]
    ELSE IF tool = "exit 0" THEN [status |-> "SUCCESS", invoked |-> TRUE]
    ELSE IF tool = "no device" THEN [status |-> "NO_DEVICE", invoked |-> TRUE]
    ELSE [status |-> "FAILED", invoked |-> TRUE]

\* firmware files on disk, and how a run of picotool ends
FirmwareFiles ==
    [exists : BOOLEAN, is_file : BOOLEAN,
     ext : {".uf2", ".UF2", ".elf", ".hex", ".bin", ""},
     size : {0, MinFirmwareSize - 1, MinFirmwareSize, MaxFirmwareSize,
             MaxFirmwareSize + 1}]
ToolRuns == {"exit 0", "no device", "exit 1", "timeout"}

CallUpload ==
    /\ call = NoCall
    /\ \E picotool_exists \in BOOLEAN, file \in FirmwareFiles,
          tool \in ToolRuns :
        call' = [fn |-> "upload", picotool_exists |-> picotool_exists,
                 file |-> file,
                 result |-> upload(picotool_exists, file, tool)]
    /\ UNCHANGED UnitFrame

\* PersistenceManager (utils/persistence.py).  Python values and JSON values
\* are tagged, so that writing and reading are conversions between the two.
PyNone == [t |-> "NoneType"]
PyInt(n) == [t |-> "int", v |-> n]
PyStr(str) == [t |-> "str", v |-> str]
PyList(items) == [t |-> "list", v |-> items]
PyDict(map) == [t |-> "dict", v |-> map]

JNull == [j |-> "null"]
JNumber(n) == [j |-> "number", v |-> n]
JString(str) == [j |-> "string", v |-> str]
JArray(items) == [j |-> "array", v |-> items]
JObject(map) == [j |-> "object", v |-> map]

RECURSIVE json_dump(_)
\* json.dump: the JSON text written for a Python value
json_dump(py) ==
    CASE py.t = "NoneType" -> JNull
      [] py.t = "int" -> JNumber(py.v)
      [] py.t = "str" -> JString(py.v)
      [] py.t = "list" ->
            JArray([i \in 1..Len(py.v) |-> json_dump(py.v[i])])
      [] py.t = "dict" ->
            JObject([k \in DOMAIN py.v |-> json_dump(py.v[k])])

RECURSIVE json_load(_)
\* json.load: the Python value read from a JSON text
json_load(js) ==
    CASE js.j = "null" -> PyNone
      [] js.j = "number" -> PyInt(js.v)
      [] js.j = "string" -> PyStr(js.v)
      [] js.j = "array" ->
            PyList([i \in 1..Len(js.v) |-> json_load(js.v[i])])
      [] js.j = "object" ->
            PyDict([k \in DOMAIN js.v |-> json_load(js.v[k])])

WINDOW_MIN_WIDTH == 1024
WINDOW_MIN_HEIGHT == 768

\* PersistedState(): every field at its default
DefaultState ==
    [last_csv_path |-> PyStr(""), last_firmware_path |-> PyStr(""),
     last_picotool_path |-> PyStr(""),
     last_label_template_path |-> PyStr(""),
     last_firmware_version |-> PyStr(""),
     last_hardware_version |-> PyStr(""), last_region_code |-> PyStr("EU"),
     last_batch_id |-> PyStr(""), last_notes |-> PyStr(""),
     window_width |-> PyInt(WINDOW_MIN_WIDTH),
     window_height |-> PyInt(WINDOW_MIN_HEIGHT),
     window_x |-> PyNone, window_y |-> PyNone,
     recent_csv_files |-> PyList(<< >>),
     recent_firmware_files |-> PyList(<< >>)]

\* PersistedState values: paths, a region, window geometry, recent files
PersistedStates ==
    {[DefaultState EXCEPT
        !.last_csv_path = PyStr(path), !.last_region_code = PyStr(region),
        !.window_width = PyInt(width), !.window_x = x, !.window_y = x,
        !.recent_csv_files = PyList(recent),
        !.recent_firmware_files = PyList(fw)] :
     path \in {"", "a.csv"}, region \in {"EU", "US"},
     width \in {WINDOW_MIN_WIDTH, WINDOW_MIN_WIDTH + 1},
     x \in {PyNone, PyInt(0), PyInt(40)},
     recent \in {<< >>, << PyStr("a.csv") >>,
                 << PyStr("b.csv"), PyStr("a.csv") >>},
     fw \in {<< >>, << PyStr("fw.uf2") >>}}

\* PersistenceManager._save: the file after json.dump(asdict(state))
save_state(state) == [kind |-> "json", value |-> json_dump(PyDict(state))]

load_state_lists_left_default(content) ==
    IF content.kind # "json" THEN [raised |-> FALSE, state |-> DefaultState]
    ELSE LET data == json_load(content.value)
         IN IF data.t # "dict"
            THEN [raised |-> TRUE, state |-> DefaultState]
            ELSE [raised |-> FALSE,
                  state |-> [key \in DOMAIN DefaultState |->
                                IF key \in DOMAIN data.v
                                   /\ data.v[key].t # "list"
                                THEN data.v[key] ELSE DefaultState[key]]]

\* PersistenceManager._load on a fresh PersistedState: the state after it,
\* and whether an exception left the constructor
load_state(content) ==
    IF content.kind = "absent"
    THEN [raised |-> FALSE, state |-> DefaultState]
    ELSE IF content.kind = "not json"
    THEN [raised |-> FALSE, state |-> DefaultState]
    ELSE LET data == json_load(content.value)
         IN IF data.t # "dict"
            THEN [raised |-> TRUE, state |-> DefaultState]
            ELSE [raised |-> FALSE,
                  state |-> [key \in DOMAIN DefaultState |->
                                IF key \in DOMAIN data.v THEN data.v[key]
                                ELSE DefaultState[key]]]

\* what the state file can hold when a PersistenceManager is constructed
StateFileContents ==
    {[kind |-> "absent"], [kind |-> "not json"]}
    \cup {[kind |-> "json", value |-> js] :
            js \in {JNull, JNumber(7), JString("x"), JArray(<< >>),
                    JArray(<< JNumber(1) >>),
                    JObject([k \in {"window_x"} |-> JNumber(5)]),
                    JObject([k \in {"unknown"} |-> JNull])}}

\* set(key, value) with _save in one manager, then PersistenceManager() anew
CallSaveThenLoad ==
    /\ call = NoCall
    /\ \E state \in PersistedStates :
        call' = [fn |-> "save_then_load", written |-> state,
                 loaded |-> load_state(save_state(state))]
    /\ UNCHANGED UnitFrame

\* PersistenceManager(state_file) over a state file left by anything
CallPersistenceManager ==
    /\ call = NoCall
    /\ \E content \in StateFileContents :
        call' = [fn |-> "PersistenceManager", content |-> content,
                 loaded |-> load_state(content)]
    /\ UNCHANGED UnitFrame

\* recent-file lists (PersistenceManager.add_recent_csv, add_recent_firmware)
MAX_RECENT_FILES == 10
\* calls in one sequence, and how many of them add a path already listed
MaxAdds == 12
MaxReAdds == 2

\* recent[:n]
Truncate(recent, n) ==
    IF Len(recent) <= n THEN recent ELSE SubSeq(recent, 1, n)

\* the first index of path in recent, 0 when it is not there
IndexOf(recent, path) ==
    IF \E i \in 1..Len(recent) : recent[i] = path
    THEN CHOOSE i \in 1..Len(recent) :
            recent[i] = path /\ \A j \in 1..(i - 1) : recent[j] # path
    ELSE 0

\* recent.remove(path): the first occurrence goes
Remove(recent, path) ==
    LET at == IndexOf(recent, path)
    IN IF at = 0 THEN recent
       ELSE SubSeq(recent, 1, at - 1) \o SubSeq(recent, at + 1, Len(recent))

add_recent_keeping_copy(recent, path) ==
    Truncate(<< path >> \o recent, MAX_RECENT_FILES)

\* add_recent_csv / add_recent_firmware: the list after adding path
add_recent(recent, path) ==
    Truncate(<< path >> \o Remove(recent, path), MAX_RECENT_FILES)

RecentKeys == {"recent_csv_files", "recent_firmware_files"}
RecentPath(n) == "file" \o ToString(n)

\* add_recent_csv(path) or add_recent_firmware(path), on a fresh manager or
\* after earlier calls; the path is a new one or one already in the list
CallAddRecent ==
    /\ \/ call = NoCall
       \/ call.fn = "add_recent" /\ call.adds < MaxAdds
    /\ LET c == IF call = NoCall
                THEN [fn |-> "add_recent",
                      lists |-> [k \in RecentKeys |-> << >>],
                      fresh |-> [k \in RecentKeys |-> 0],
                      adds |-> 0, readds |-> 0,
                      key |-> "recent_csv_files", path |-> "",
                      before |-> << >>]
                ELSE call
       IN \E key \in RecentKeys :
            \/ LET path == RecentPath(c.fresh[key] + 1)
               IN call' = [c EXCEPT
                        !.lists[key] = add_recent(c.lists[key], path),
                        !.fresh[key] = @ + 1, !.adds = @ + 1,
                        !.key = key, !.path = path,
                        !.before = c.lists[key]]
            \/ /\ c.readds < MaxReAdds
               /\ \E i \in 1..Len(c.lists[key]) :
                    LET path == c.lists[key][i]
                    IN call' = [c EXCEPT
                            !.lists[key] = add_recent(c.lists[key], path),
                            !.adds = @ + 1, !.readds = @ + 1,
                            !.key = key, !.path = path,
                            !.before = c.lists[key]]
    /\ UNCHANGED UnitFrame

\* PersistenceManager.set(key, value): known keys are stored and the file is
\* rewritten, other keys are dropped
persistence_set(state, file, key, value) ==
    IF key \in DOMAIN state
    THEN [state |-> [state EXCEPT ![key] = value],
          file |-> save_state([state EXCEPT ![key] = value])]
    ELSE [state |-> state, file |-> file]

\* PersistenceManager.get(key, default)
persistence_get(state, key, default) ==
    IF key \in DOMAIN state THEN state[key] ELSE default

\* what root.geometry() returns at exit, and the size set in __init__
WindowGeometries == {"1200x800+0+0", "1400x900+10+20", "1600x1000+300+5"}
InitialGeometry == "1200x800"

\* MainWindow._on_exit with _save_state, then MainWindow.__init__ with
\* _restore_state in the next run of the program
CallExitThenStart ==
    /\ call = NoCall
    /\ \E geometry \in WindowGeometries, state \in PersistedStates,
          file_there \in BOOLEAN :
        LET file == IF file_there THEN save_state(state)
                    ELSE [kind |-> "absent"]
            saved == persistence_set(state, file, "window_geometry",
                                     PyStr(geometry))
            loaded == load_state(saved.file)
            restored == persistence_get(loaded.state, "window_geometry",
                                        PyNone)
        IN call' = [fn |-> "exit_then_start", geometry |-> geometry,
                    file |-> saved.file, restored |-> restored,
                    applied |-> IF restored.t = "str" /\ restored.v # ""
                                THEN restored.v ELSE InitialGeometry]
    /\ UNCHANGED UnitFrame

\* UF2 markers (FlashApp/core/uf2_tools.py).  A buffer is a sequence of
\* bytes, a byte a one-character string.
interval == 10240
MarkerPrefix == << "D", "E", "V", "I", "C", "E", "_", "I", "D", ":" >>
MarkerSuffix == << ":", "E", "N", "D" >>

\* f"DEVICE_ID:{serial_number}:END".encode('ascii')
Marker(serial_number) == MarkerPrefix \o serial_number \o MarkerSuffix

\* the bytes of word are in data from index p on
IsAt(data, p, word) ==
    /\ p + Len(word) - 1 <= Len(data)
    /\ \A i \in 1..Len(word) : data[p + i - 1] = word[i]

Occurrences(data, word) ==
    Cardinality({p \in 1..Len(data) : IsAt(data, p, word)})

insertion_points_from_zero(original_size) ==
    {i \in 0..(original_size - 1) : i % interval = 0}

\* list(range(interval, original_size, interval))
insertion_points(original_size) ==
    {i \in interval..(original_size - 1) : i % interval = 0}

RECURSIVE InsertAt(_, _, _)
\* "for i in reversed(insertion_points): self.data[i:i] = encoded_marker"
InsertAt(data, points, encoded_marker) ==
    IF points = {} THEN data
    ELSE LET i == CHOOSE p \in points : \A q \in points : q <= p
         IN InsertAt(SubSeq(data, 1, i) \o encoded_marker
                        \o SubSeq(data, i + 1, Len(data)),
                     points \ {i}, encoded_marker)

\* UF2File.embed_serial_number on a buffer: whether it succeeded and the
\* buffer afterwards
embed_serial_number(data, serial_number) ==
    IF serial_number = << >> THEN [ok |-> FALSE, data |-> data]
    ELSE LET encoded_marker == Marker(serial_number)
             original_size == Len(data)
         IN [ok |-> TRUE,
             data |-> InsertAt(data \o encoded_marker,
                               insertion_points(original_size),
                               encoded_marker)]

\* the end of the run of bytes other than ":" that starts at p
RunEnd(data, p) ==
    IF \E q \in p..Len(data) : data[q] = ":"
    THEN (CHOOSE q \in p..Len(data) :
            data[q] = ":" /\ \A r \in p..(q - 1) : data[r] # ":") - 1
    ELSE Len(data)

\* re.search(rb'DEVICE_ID:([^:]+):END', data) matches at p
MatchesAt(data, p) ==
    /\ IsAt(data, p, MarkerPrefix)
    /\ LET g == p + Len(MarkerPrefix)
           e == RunEnd(data, g)
       IN e >= g /\ IsAt(data, e + 1, MarkerSuffix)

\* extract_serial_from_uf2: the group of the leftmost match
extract_serial_from_uf2(data) ==
    IF \E p \in 1..Len(data) : MatchesAt(data, p)
    THEN LET p == CHOOSE s \in 1..Len(data) :
                    MatchesAt(data, s)
                    /\ \A r \in 1..(s - 1) : ~MatchesAt(data, r)
             g == p + Len(MarkerPrefix)
         IN [found |-> TRUE, serial |-> SubSeq(data, g, RunEnd(data, g))]
    ELSE [found |-> FALSE, serial |-> << >>]

\* n bytes of an image that holds no marker
Filler(n) == SubSeq([i \in 1..n |-> "x"], 1, n)

\* serial numbers as given on the command line or read from the ledger
UF2Serials ==
    {<< "S", "N", "-", "1" >>, << "S", "N", "-", "2" >>,
     << "S", "N", ":", "1" >>, << "7" >>}

\* UF2 images: plain ones of the lengths around the interval, and small ones
\* that went through embed_serial_number before
UF2Buffers ==
    {Filler(n) : n \in {0, 1, 2, 3, interval - 1, interval, interval + 1,
                        2 * interval, 2 * interval + 1}}
    \cup {embed_serial_number(Filler(n), s).data :
            n \in {0, 3}, s \in {<< "S", "N", "-", "2" >>, << "7" >>}}
    \cup {<< ":" >>, MarkerPrefix, MarkerPrefix \o << "x" >>,
          << "x" >> \o MarkerSuffix}

\* embed_serial_number on an image, then extract_serial_from_uf2 on the result
CallEmbedSerialNumber ==
    /\ call = NoCall
    /\ \E data \in UF2Buffers, serial_number \in UF2Serials :
        LET r == embed_serial_number(data, serial_number)
        IN call' = [fn |-> "embed_serial_number",
                    serial_number |-> serial_number,
                    original_size |-> Len(data),
                    marked_before |->
                        \E p \in 1..Len(data) : MatchesAt(data, p),
                    ok |-> r.ok, size |-> Len(r.data),
                    occurrences |->
                        Occurrences(r.data, Marker(serial_number)),
                    extracted |-> extract_serial_from_uf2(r.data)]
    /\ UNCHANGED UnitFrame

\* label raster (label/label_generator.py)
LABEL_WIDTH_MM == 75
LABEL_HEIGHT_MM == 50
LABEL_DPI == 300

\* int(mm / 25.4 * CONFIG.LABEL_DPI): int() drops the fraction
label_px(mm) == (mm * 10 * LABEL_DPI) \div 254

\* LabelGenerator._resize_image: the size of the file afterwards
resize_image(size, width, height, pil_available) ==
    IF pil_available THEN << width, height >> ELSE size

\* sizes renderPM draws templates of different native sizes at
RenderedSizes == {<< 885, 590 >>, << 886, 591 >>, << 313, 208 >>}

\* LabelGenerator.generate_label, template found and rendered
CallGenerateLabel ==
    /\ call = NoCall
    /\ \E rendered \in RenderedSizes, pil_available \in BOOLEAN :
        call' = [fn |-> "generate_label", rendered |-> rendered,
                 pil_available |-> pil_available,
                 size |-> resize_image(rendered,
                                       label_px(LABEL_WIDTH_MM),
                                       label_px(LABEL_HEIGHT_MM),
                                       pil_available)]
    /\ UNCHANGED UnitFrame

\* board-ID database (FlashApp/core/serial_manager.py)
MaxRegisters == 3
BoardIds == {"E66", "E67", "E68"}

\* SerialManager.load_board_id_db: {} when the file is absent, cannot be
\* read or does not parse
load_board_id_db(file, readable) ==
    IF file.kind = "json" /\ readable THEN file.db ELSE << >>

\* SerialManager.save_board_id_db: open(..., 'w') empties the file before
\* json.dump writes; each of the two can fail
save_board_id_db(file, db, write) ==
    IF write = "ok" THEN [file |-> [kind |-> "json", db |-> db], ok |-> TRUE]
    ELSE IF write = "open_fails" THEN [file |-> file, ok |-> FALSE]
    ELSE [file |-> [kind |-> "truncated", db |-> << >>], ok |-> FALSE]

\* SerialManager.register_board_id
register_board_id(file, board_id, serial_number, readable, write) ==
    LET db == load_board_id_db(file, readable)
        added == [k \in DOMAIN db \cup {board_id} |->
                    IF k = board_id THEN serial_number ELSE db[k]]
    IN save_board_id_db(file, added, write)

\* the board IDs a database file holds
StoredIds(file) == IF file.kind = "json" THEN DOMAIN file.db ELSE {}

\* register_board_id(board_id, serial_number), on a new database or after
\* earlier registrations
CallRegisterBoardId ==
    /\ \/ call = NoCall
       \/ call.fn = "register_board_id" /\ call.calls < MaxRegisters
    /\ LET file == IF call = NoCall THEN [kind |-> "absent", db |-> << >>]
                   ELSE call.file
           calls == IF call = NoCall THEN 0 ELSE call.calls
       IN \E board_id \in BoardIds,
             serial_number \in {CliSerial(i) : i \in 1..CliRows},
             readable \in BOOLEAN,
             write \in {"ok", "open_fails", "write_fails"} :
            LET r == register_board_id(file, board_id, serial_number,
                                       readable, write)
            IN call' = [fn |-> "register_board_id", file |-> r.file,
                        ok |-> r.ok, before |-> StoredIds(file),
                        readable |-> readable, calls |-> calls + 1]
    /\ UNCHANGED UnitFrame


\* ------------------------------------------------------------------------
\* DeviceDetector: one scan of the mounts and of the serial ports.  Paths
\* and file contents are sequences of characters
\* ------------------------------------------------------------------------
RP2040_USB_VID == 11914        \* 0x2E8A
RP2040_USB_PID_BOOT == 3       \* 0x0003
RP2040_VOLUME_NAME == << "R", "P", "I", "-", "R", "P", "2" >>
ByLabelDir == << "/", "d", "e", "v", "/", "d", "i", "s", "k", "/", "b", "y", "-", "l", "a", "b", "e", "l", "/" >>

\* str.lower(), character by character
lower_char(c) ==
    CASE c = "A" -> "a" []
         c = "B" -> "b" []
         c = "C" -> "c" []
         c = "D" -> "d" []
         c = "E" -> "e" []
         c = "F" -> "f" []
         c = "G" -> "g" []
         c = "H" -> "h" []
         c = "I" -> "i" []
         c = "J" -> "j" []
         c = "K" -> "k" []
         c = "L" -> "l" []
         c = "M" -> "m" []
         c = "N" -> "n" []
         c = "O" -> "o" []
         c = "P" -> "p" []
         c = "Q" -> "q" []
         c = "R" -> "r" []
         c = "S" -> "s" []
         c = "T" -> "t" []
         c = "U" -> "u" []
         c = "V" -> "v" []
         c = "W" -> "w" []
         c = "X" -> "x" []
         c = "Y" -> "y" []
         c = "Z" -> "z" []
         OTHER -> c

lower(s) == [i \in 1..Len(s) |-> lower_char(s[i])]

\* word in s
Contains(s, word) == \E p \in 1..Len(s) : IsAt(s, p, word)

\* s.startswith(word)
StartsWith(s, word) == IsAt(s, 1, word)

\* what the INFO_UF2.TXT probe of a mount meets: exists() answers or raises,
\* read_text() returns the content or raises
InfoContents == {<< "R", "P", "2", "0", "4", "0" >>, << "i", "d", " ", "R", "P", "I", "-", "R", "P", "2" >>, << "S", "T", "M", "3", "2" >>}
InfoFiles ==
    [exists : {"no", "raises"}, content : {<< >>}, readable : {FALSE}]
    \cup [exists : {"yes"}, content : InfoContents, readable : BOOLEAN]

\* the mount is accepted only on its INFO_UF2.TXT
_is_rpi_rp2_mount_by_info_file(mount_path, info) ==
    /\ info.exists = "yes"
    /\ info.readable
    /\ \/ Contains(info.content, << "R", "P", "2", "0", "4", "0" >>)
       \/ Contains(info.content, RP2040_VOLUME_NAME)

\* DeviceDetector._is_rpi_rp2_mount
_is_rpi_rp2_mount(mount_path, info) ==
    IF Contains(lower(mount_path), lower(RP2040_VOLUME_NAME)) THEN TRUE
    ELSE LET exists == IF info.exists = "raises" THEN FALSE
                       ELSE info.exists = "yes"
         IN  /\ exists
             /\ info.readable
             /\ \/ Contains(info.content, << "R", "P", "2", "0", "4", "0" >>)
                \/ Contains(info.content, RP2040_VOLUME_NAME)

\* the part of _scan_bootsel_devices that classifies one candidate: a
\* by-label path is taken as it is, a mount is asked about
bootsel_devices(mount, info) ==
    IF StartsWith(mount, ByLabelDir) \/ _is_rpi_rp2_mount(mount, info)
    THEN {[state |-> "BOOTSEL", path |-> mount, vid |-> RP2040_USB_VID,
           pid |-> RP2040_USB_PID_BOOT]}
    ELSE {}

\* DeviceDetector._scan_serial_devices over the ports comports() lists
_scan_serial_devices(ports) ==
    {[state |-> "SERIAL", path |-> ports[i].device, vid |-> ports[i].vid,
      pid |-> ports[i].pid] :
        i \in {j \in 1..Len(ports) : ports[j].vid = RP2040_USB_VID}}

\* the mounts of the model, and those whose path contains the volume name
NamedMounts == {<< "/", "m", "/", "R", "P", "I", "-", "R", "P", "2" >>, << "/", "d", "e", "v", "/", "d", "i", "s", "k", "/", "b", "y", "-", "l", "a", "b", "e", "l", "/", "R", "P", "I", "-", "R", "P", "2" >>}
ScannedMounts == NamedMounts \cup {<< "/", "m", "/", "r", "p", "i", "-", "r", "p", "2" >>, << "/", "m", "/", "u", "s", "b" >>, << "E", ":", "\\" >>}

\* the ports of the model: vid and pid 0 stand for None (not a USB port)
MaxPorts == 2
PortVids == {0, 1155, RP2040_USB_VID}
PortPids == {0, RP2040_USB_PID_BOOT, 10}
ListedPorts ==
    {<< >>} \cup
    {[i \in 1..n |-> [device |-> "COM" \o ToString(i), vid |-> v[i],
                      pid |-> p[i]]] :
        n \in {MaxPorts}, v \in [1..MaxPorts -> PortVids],
        p \in [1..MaxPorts -> {RP2040_USB_PID_BOOT, 10}]}
    \cup {<< [device |-> "COM1", vid |-> v, pid |-> p] >> :
            v \in PortVids, p \in PortPids}

\* DeviceDetector._scan_devices meets one mount and some ports
CallScanDevices ==
    /\ call = NoCall
    /\ \E mount \in ScannedMounts, info \in InfoFiles, ports \in ListedPorts :
          call' = [fn |-> "_scan_devices", mount |-> mount, info |-> info,
                   ports |-> ports,
                   devices |-> bootsel_devices(mount, info)
                               \cup _scan_serial_devices(ports)]
    /\ UNCHANGED UnitFrame


\* ------------------------------------------------------------------------
\* DeviceDetector.wait_for_serial_port: one snapshot of comports() and one
\* listing per pass of the polling loop until the timeout
\* ------------------------------------------------------------------------
MaxPolls == 3   \* passes of the polling loop before the timeout

\* the first listing is the snapshot; a port is reported in the first pass
\* that lists it when it is outside the snapshot and the excluded names and
\* has the RP2040 vendor ID
wait_for_new_serial_port(listings, exclude_ports) ==
    LET initial_ports == {p.device : p \in listings[1]} \cup exclude_ports
        found(k) == {p \in listings[k] : /\ p.device \notin initial_ports
                                         /\ p.vid = RP2040_USB_VID}
        passes == {k \in 2..Len(listings) : found(k) # {}}
    IN  IF passes = {} THEN None
        ELSE LET k == CHOOSE k \in passes : \A j \in passes : k <= j
             IN  (CHOOSE p \in found(k) : TRUE).device

\* what comports() lists over time when the flashed device enumerates as
\* ttyACM0 after `at` listings (0: before the snapshot) next to a port that
\* is there all along
Listings(at, vid) ==
    [k \in 1..(MaxPolls + 1) |->
        {[device |-> "ttyS0", vid |-> 0]} \cup
        (IF at < k THEN {[device |-> "ttyACM0", vid |-> vid]} ELSE {})]

\* Step 2 of _run_workflow after a successful upload: the wait, and the
\* exception when it returns no port
CallWaitForSerialPort ==
    /\ call = NoCall
    /\ \E at \in 0..(MaxPolls + 1), vid \in PortVids :
        LET serial_port == wait_for_new_serial_port(Listings(at, vid), {})
        IN call' = [fn |-> "wait_for_serial_port", at |-> at, vid |-> vid,
                    serial_port |-> serial_port,
                    next |-> IF serial_port = None THEN "ERROR"
                             ELSE "PROVISIONING"]
    /\ UNCHANGED UnitFrame


\* ------------------------------------------------------------------------
\* Step 5 of _run_workflow on the worker thread
\* ------------------------------------------------------------------------
\* the Tk variables ProvisioningPanel.get_parameters reads (get_values and
\* get_options)
PanelVariables ==
    {"_firmware_path_var", "_picotool_path_var", "_fw_version_var",
     "_hw_version_var", "_region_var", "_batch_var", "_notes_var",
     "_auto_print_var", "_auto_next_var"}

\* ProvisioningPanel.get_parameters: the widget variables it reads and the
\* auto_print_label it returns
get_parameters(_auto_print_var) ==
    [reads |-> PanelVariables, auto_print_label |-> _auto_print_var]

\* the label step: after a generated label the panel is asked whether to
\* print it; a failed label is only logged
generate_label_step(label_success, _auto_print_var) ==
    IF ~label_success
    THEN [widget_reads |-> {}, print_label |-> FALSE]
    ELSE LET params == get_parameters(_auto_print_var)
         IN  [widget_reads |-> params.reads,
              print_label |-> params.auto_print_label]

\* the worker reaches Step 5; the "auto print" box was `at_start` when
\* Start was pressed and is `now`
CallGenerateLabelStep ==
    /\ call = NoCall
    /\ \E label_success \in BOOLEAN, at_start \in BOOLEAN, now \in BOOLEAN :
        LET r == generate_label_step(label_success, now)
        IN call' = [fn |-> "generate_label_step",
                    label_success |-> label_success,
                    auto_print_at_start |-> at_start, auto_print_now |-> now,
                    widget_reads |-> r.widget_reads,
                    print_label |-> r.print_label]
    /\ UNCHANGED UnitFrame


\* ------------------------------------------------------------------------
\* SerialProvisioner._check_response_ok.  A response is a list of lines, or
\* None (NoResponse: no list was returned); a line is its text, marked with
\* what the text holds
\* ------------------------------------------------------------------------
MaxLines == 2   \* lines of a response

\* str.upper(), character by character
upper_char(c) ==
    CASE c = "o" -> "O" [] c = "k" -> "K" [] c = "s" -> "S" [] c = "u" -> "U"
      [] c = "c" -> "C" [] c = "e" -> "E" [] c = "r" -> "R" [] c = "f" -> "F"
      [] c = "a" -> "A" [] c = "i" -> "I" [] c = "l" -> "L" [] c = "d" -> "D"
      [] c = "n" -> "N" [] c = "t" -> "T" [] OTHER -> c

upper(s) == [i \in 1..Len(s) |-> upper_char(s[i])]

HoldsOk(text) ==
    \/ Contains(upper(text), << "O", "K" >>)
    \/ Contains(upper(text), << "S", "U", "C", "C", "E", "S", "S" >>)
HoldsError(text) ==
    \/ Contains(upper(text), << "E", "R", "R", "O", "R" >>)
    \/ Contains(upper(text), << "F", "A", "I", "L" >>)

NoResponse == << [text |-> << "-" >>, ok |-> FALSE, err |-> FALSE] >>
IsNone(response) == response = NoResponse

\* every line that holds ERROR or FAIL fails the response
_check_response_ok_no_error_line(response) ==
    /\ ~IsNone(response)
    /\ response # << >>
    /\ \A i \in 1..Len(response) : ~HoldsError(response[i].text)

\* _check_response_ok: the first line that holds OK/SUCCESS or ERROR/FAIL
\* decides, OK being looked for first within the line
_check_response_ok(response) ==
    IF IsNone(response) \/ response = << >> THEN FALSE
    ELSE LET deciding == {i \in 1..Len(response) :
                            \/ HoldsOk(response[i].text)
                            \/ HoldsError(response[i].text)}
         IN  IF deciding = {} THEN TRUE
             ELSE LET i == CHOOSE k \in deciding : \A j \in deciding : k <= j
                  IN  HoldsOk(response[i].text)

ResponseLines ==
    {[text |-> << "O", "K" >>, ok |-> TRUE, err |-> FALSE],
     [text |-> << "o", "k" >>, ok |-> TRUE, err |-> FALSE],
     [text |-> << "S", "u", "c", "c", "e", "s", "s" >>, ok |-> TRUE, err |-> FALSE],
     [text |-> << "E", "R", "R", "O", "R", ":", " ", "l", "o", "c", "k", "e", "d" >>, ok |-> FALSE, err |-> TRUE],
     [text |-> << "F", "a", "i", "l", "e", "d" >>, ok |-> FALSE, err |-> TRUE],
     [text |-> << "d", "o", "n", "e" >>, ok |-> FALSE, err |-> FALSE],
     [text |-> << "E", "R", "R", "O", "R", ",", " ", "n", "o", "t", " ", "O", "K" >>, ok |-> TRUE, err |-> TRUE]}

Responses ==
    {NoResponse, << >>}
    \cup UNION {[1..n -> ResponseLines] : n \in 1..MaxLines}

CallCheckResponseOk ==
    /\ call = NoCall
    /\ \E response \in Responses :
        call' = [fn |-> "_check_response_ok", response |-> response,
                 ok |-> _check_response_ok(response)]
    /\ UNCHANGED UnitFrame


\* ------------------------------------------------------------------------
\* SerialProvisioner.provision_device as a whole: the commands it sends for
\* given responses.  The expected serial number is SN-1, the region EU.
\* ------------------------------------------------------------------------
\* the PROV STATUS loop from pass i on: a reply that is not empty is parsed
RECURSIVE status_loop(_, _, _)
status_loop(i, status_info, replies) ==
    IF StatusLoopStops(i, status_info)
    THEN [polls |-> i, status_info |-> status_info]
    ELSE LET reply == replies[i + 1]
             response == reply.response
         IN  status_loop(i + 1,
                 IF IsNone(response) \/ response = << >> THEN status_info
                 ELSE parse_status(reply.serial_number, reply.region),
                 replies)

\* PROV SET_REGION is not checked
provision_device_region_unchecked(connected, unlock, set_sn, set_region, replies) ==
    IF ~connected THEN [sent |-> << >>, status |-> "PORT_ERROR"]
    ELSE IF ~_check_response_ok(unlock)
    THEN [sent |-> << "PROV UNLOCK" >>, status |-> "COMMAND_ERROR"]
    ELSE IF ~_check_response_ok(set_sn)
    THEN [sent |-> << "PROV UNLOCK", "PROV SET_SN" >>,
          status |-> "COMMAND_ERROR"]
    ELSE IF FALSE
    THEN [sent |-> << "PROV UNLOCK", "PROV SET_SN", "PROV SET_REGION" >>,
          status |-> "COMMAND_ERROR"]
    ELSE LET s == status_loop(0, NoStatusInfo, replies)
         IN  [sent |-> << "PROV UNLOCK", "PROV SET_SN", "PROV SET_REGION" >>
                       \o [i \in 1..s.polls |-> "PROV STATUS"],
              status |-> CompareStatus(s.status_info, "SN-1", "EU").status]

provision_device(connected, unlock, set_sn, set_region, replies) ==
    IF ~connected THEN [sent |-> << >>, status |-> "PORT_ERROR"]
    ELSE IF ~_check_response_ok(unlock)
    THEN [sent |-> << "PROV UNLOCK" >>, status |-> "COMMAND_ERROR"]
    ELSE IF ~_check_response_ok(set_sn)
    THEN [sent |-> << "PROV UNLOCK", "PROV SET_SN" >>,
          status |-> "COMMAND_ERROR"]
    ELSE IF ~_check_response_ok(set_region)
    THEN [sent |-> << "PROV UNLOCK", "PROV SET_SN", "PROV SET_REGION" >>,
          status |-> "COMMAND_ERROR"]
    ELSE LET s == status_loop(0, NoStatusInfo, replies)
         IN  [sent |-> << "PROV UNLOCK", "PROV SET_SN", "PROV SET_REGION" >>
                       \o [i \in 1..s.polls |-> "PROV STATUS"],
              status |-> CompareStatus(s.status_info, "SN-1", "EU").status]

\* the responses to the three setting commands, and the PROV STATUS replies
CommandResponses ==
    {NoResponse, << [text |-> << "O", "K" >>, ok |-> TRUE, err |-> FALSE] >>,
     << [text |-> << "E", "R", "R", "O", "R", ":", " ", "l", "o", "c", "k", "e", "d" >>, ok |-> FALSE, err |-> TRUE] >>,
     << [text |-> << "d", "o", "n", "e" >>, ok |-> FALSE, err |-> FALSE] >>}

StatusReply(response, sn, region) ==
    [response |-> response, serial_number |-> sn, region |-> region]

StatusReplyKinds ==
    {StatusReply(NoResponse, "absent", "absent"),
     StatusReply(<< [text |-> << "E", "R", "R", "O", "R", ":", " ", "l", "o", "c", "k", "e", "d" >>, ok |-> FALSE, err |-> TRUE] >>, "absent", "absent"),
     StatusReply(<< [text |-> << "d", "o", "n", "e" >>, ok |-> FALSE, err |-> FALSE] >>, "SN-1", "EU"),
     StatusReply(<< [text |-> << "d", "o", "n", "e" >>, ok |-> FALSE, err |-> FALSE] >>, "SN-2", "EU")}

CallProvisionDevice ==
    /\ call = NoCall
    /\ \E connected \in BOOLEAN, unlock \in CommandResponses,
          set_sn \in CommandResponses, set_region \in CommandResponses,
          replies \in [1..MaxStatusAttempts -> StatusReplyKinds] :
        LET r == provision_device(connected, unlock, set_sn, set_region,
                                  replies)
        IN call' = [fn |-> "provision_device", connected |-> connected,
                    responses |-> << unlock, set_sn, set_region >>,
                    replies |-> replies, sent |-> r.sent,
                    status |-> r.status]
    /\ UNCHANGED UnitFrame


\* ------------------------------------------------------------------------
\* SerialProvisioner._parse_status on the characters of the reply.  The
\* parsed dict is a function from keys to values ('raw' is left out).
\* ------------------------------------------------------------------------
MaxStatusLines == 2   \* lines of a PROV STATUS reply

Alnum == {"a", "b", "c", "d", "e", "f", "g", "h", "i", "j", "k", "l", "m",
          "n", "o", "p", "q", "r", "s", "t", "u", "v", "w", "x", "y", "z",
          "0", "1", "2", "3", "4", "5", "6", "7", "8", "9"}

\* the first position of s that holds c, 0 when there is none
Find(s, c) ==
    IF \E i \in 1..Len(s) : s[i] = c
    THEN CHOOSE i \in 1..Len(s) : s[i] = c /\ \A j \in 1..(i-1) : s[j] # c
    ELSE 0

\* str.lstrip() and str.strip()
lstrip(s) ==
    LET kept == {i \in 1..Len(s) : s[i] # " "}
    IN  IF kept = {} THEN << >>
        ELSE SubSeq(s, CHOOSE i \in kept : \A j \in kept : i <= j, Len(s))

strip(s) ==
    LET kept == {i \in 1..Len(s) : s[i] # " "}
    IN  IF kept = {} THEN << >>
        ELSE SubSeq(s, CHOOSE i \in kept : \A j \in kept : i <= j,
                       CHOOSE i \in kept : \A j \in kept : j <= i)

\* re.sub(r"^\[[^\]]+\]\s*", "", line)
strip_tag(line) ==
    LET close == Find(line, "]")
    IN  IF Len(line) > 0 /\ line[1] = "[" /\ close >= 3
        THEN lstrip(SubSeq(line, close + 1, Len(line)))
        ELSE line

\* re.sub(r"[^a-z0-9]+", "_", key): the characters from position i on
RECURSIVE sub_non_alnum(_, _)
sub_non_alnum(key, i) ==
    IF i > Len(key) THEN << >>
    ELSE IF key[i] \in Alnum THEN << key[i] >> \o sub_non_alnum(key, i + 1)
    ELSE IF i = 1 \/ key[i - 1] \in Alnum
    THEN << "_" >> \o sub_non_alnum(key, i + 1)
    ELSE sub_non_alnum(key, i + 1)

normalize_key(key) == sub_non_alnum(lower(strip(key)), 1)

\* result[key] = value
SetItem(result, key, value) ==
    [k \in DOMAIN result \cup {key} |-> IF k = key THEN value ELSE result[k]]

NoItems == [k \in {} |-> << >>]

\* the loop over the lines, from line i on
RECURSIVE parse_lines(_, _, _)
parse_lines(response, i, result) ==
    IF i > Len(response) THEN result
    ELSE LET line == strip_tag(response[i].text)
             colon == Find(line, ":")
         IN  IF colon = 0 THEN parse_lines(response, i + 1, result)
             ELSE parse_lines(response, i + 1,
                    SetItem(result,
                            normalize_key(SubSeq(line, 1, colon - 1)),
                            strip(SubSeq(line, colon + 1, Len(line)))))

K_serial_number == << "s", "e", "r", "i", "a", "l", "_", "n", "u", "m", "b", "e", "r" >>
K_region == << "r", "e", "g", "i", "o", "n" >>
K_region_code == << "r", "e", "g", "i", "o", "n", "_", "c", "o", "d", "e" >>
SerialAliases == << << "d", "e", "v", "i", "c", "e", "_", "s", "e", "r", "i", "a", "l" >>, << "s", "n" >>, << "s", "_", "n" >>, << "s", "e", "r", "i", "a", "l" >> >>

\* "Map common aliases": the first alias present gives serial_number
map_aliases(result) ==
    LET present == {i \in 1..Len(SerialAliases) :
                        SerialAliases[i] \in DOMAIN result}
    IN  IF K_serial_number \in DOMAIN result \/ present = {} THEN result
        ELSE SetItem(result, K_serial_number,
                result[SerialAliases[CHOOSE i \in present :
                                        \A j \in present : i <= j]])

\* "Normalize region value to code": region_code stands in for a missing
\* region, and the first code of REGION_CODES found in the value replaces it
normalize_region(result) ==
    LET r == IF K_region \notin DOMAIN result
                /\ K_region_code \in DOMAIN result
             THEN SetItem(result, K_region, result[K_region_code])
             ELSE result
        codes == << << "E", "U" >>, << "U", "S" >> >>
        held == IF K_region \in DOMAIN r
                THEN {i \in 1..Len(codes) : Contains(r[K_region], codes[i])}
                ELSE {}
    IN  IF held = {} THEN r
        ELSE SetItem(r, K_region,
                     codes[CHOOSE i \in held : \A j \in held : i <= j])

\* no alias is folded into serial_number
_parse_status_without_aliases(response) ==
    normalize_region(parse_lines(response, 1, NoItems))

_parse_status(response) ==
    normalize_region(map_aliases(parse_lines(response, 1, NoItems)))

\* reply lines; each is marked with the key and the trimmed value it
\* stands for (key "?" for a line without a colon) and with the region code
\* its value holds
StatusLines ==
    {[text |-> << "D", "e", "v", "i", "c", "e", "-", "S", "e", "r", "i", "a", "l", ":", " ", "S", "N", "-", "0", "0", "1" >>,
      key |-> << "d", "e", "v", "i", "c", "e", "_", "s", "e", "r", "i", "a", "l" >>, value |-> << "S", "N", "-", "0", "0", "1" >>, code |-> "none"],
     [text |-> << "R", "e", "g", "i", "o", "n", ":", " ", "E", "U", "-", "c", "u", "s", "t", "o", "m", "s" >>,
      key |-> << "r", "e", "g", "i", "o", "n" >>, value |-> << "E", "U", "-", "c", "u", "s", "t", "o", "m", "s" >>, code |-> "EU"],
     [text |-> << "[", "I", "N", "F", "O", "]", " ", "S", "/", "N", ":", " ", " ", "A", "1", " " >>,
      key |-> << "s", "_", "n" >>, value |-> << "A", "1" >>, code |-> "none"],
     [text |-> << "S", "e", "r", "i", "a", "l", " ", "N", "u", "m", "b", "e", "r", ":", " ", "B", "2" >>,
      key |-> << "s", "e", "r", "i", "a", "l", "_", "n", "u", "m", "b", "e", "r" >>, value |-> << "B", "2" >>, code |-> "none"],
     [text |-> << "S", "N", ":", " ", "C", "3" >>,
      key |-> << "s", "n" >>, value |-> << "C", "3" >>, code |-> "none"],
     [text |-> << "S", "N", ":", " ", "D", "4" >>,
      key |-> << "s", "n" >>, value |-> << "D", "4" >>, code |-> "none"],
     [text |-> << "R", "e", "g", "i", "o", "n", ":", " ", "U", "S" >>,
      key |-> << "r", "e", "g", "i", "o", "n" >>, value |-> << "U", "S" >>, code |-> "US"],
     [text |-> << "R", "e", "g", "i", "o", "n", "_", "C", "o", "d", "e", ":", " ", "X", "X" >>,
      key |-> << "r", "e", "g", "i", "o", "n", "_", "c", "o", "d", "e" >>, value |-> << "X", "X" >>, code |-> "none"],
     [text |-> << "[", "E", "C", "H", "O", "]", " ", "P", "R", "O", "V", " ", "S", "T", "A", "T", "U", "S" >>,
      key |-> << "?" >>, value |-> << >>, code |-> "none"]}

CallParseStatus ==
    /\ call = NoCall
    /\ \E n \in 1..MaxStatusLines :
       \E response \in [1..n -> StatusLines] :
        call' = [fn |-> "_parse_status", response |-> response,
                 result |-> _parse_status(response)]
    /\ UNCHANGED UnitFrame

\* the caller has the result; the next call can be made
ReturnCall ==
    /\ call # NoCall
    /\ call' = NoCall
    /\ UNCHANGED UnitFrame

NextUnits ==
    \/ CallDeployFirmware
    \/ CallMainFlash
    \/ CallVerify
    \/ CallUpdateSelectedRow
    \/ CallUpload
    \/ CallSaveThenLoad
    \/ CallPersistenceManager
    \/ CallAddRecent
    \/ CallExitThenStart
    \/ CallEmbedSerialNumber
    \/ CallGenerateLabel
    \/ CallRegisterBoardId
    \/ CallScanDevices
    \/ CallWaitForSerialPort
    \/ CallGenerateLabelStep
    \/ CallCheckResponseOk
    \/ CallProvisionDevice
    \/ CallParseStatus
    \/ ReturnCall

InitUnits == InitGui /\ InitCliIdle /\ InitUnitsIdle

SpecUnits == InitUnits /\ [][NextUnits]_vars


\* ------------------------------------------------------------------------
\* Desktop Shell (rp_flasher_app.App): every click on "Run Flash", "Flash
\* Next Unit" or "Flash Batch" starts a daemon thread that launches the CLI
\* as a subprocess; shell holds one record per started thread
\* ------------------------------------------------------------------------
MaxShellRuns == 2   \* clicks that start a run
MaxUnits == 2       \* the largest "units" entry

ShellFrame == << gui_state, cli_state, prov, call, detector >>

\* the thread of one run: `units` CLI processes to launch, `i` of them
\* already exited, and whether its process is being launched, is running
\* or the thread has ended
NewRun(kind, units) ==
    [kind |-> kind, units |-> units, i |-> 0, pc |-> "spawn",
     signalled |-> FALSE]

\* App._run_cmd: a new ProcessRunner replaces self.runner and run_async
\* starts its worker thread
_run_cmd == shell' = Append(shell, NewRun("flash", 1))

\* "Run Flash"
on_flash_run ==
    /\ Len(shell) < MaxShellRuns
    /\ _run_cmd
    /\ UNCHANGED ShellFrame

\* App.on_prod_run(count): without a CSV path an error box is shown,
\* otherwise the run_batch thread is started
on_prod_run(count, csv_selected) ==
    IF ~csv_selected THEN UNCHANGED shell
    ELSE shell' = Append(shell, NewRun("batch", count))

\* "Flash Next Unit"
on_prod_next_unit ==
    /\ Len(shell) < MaxShellRuns
    /\ \E csv_selected \in BOOLEAN : on_prod_run(1, csv_selected)
    /\ UNCHANGED ShellFrame

\* "Flash Batch": the units entry, 1 when it is not a number or below 1
on_prod_batch ==
    /\ Len(shell) < MaxShellRuns
    /\ \E n \in 0..MaxUnits, csv_selected \in BOOLEAN :
          on_prod_run(IF n > 1 THEN n ELSE 1, csv_selected)
    /\ UNCHANGED ShellFrame

\* the thread of run k calls subprocess.Popen: the CLI process runs, or
\* the spawn fails and the thread ends
ShellPopen ==
    /\ \E k \in 1..Len(shell), spawned \in BOOLEAN :
          /\ shell[k].pc = "spawn"
          /\ shell' = [shell EXCEPT ![k].pc =
                          IF spawned THEN "running" ELSE "done"]
    /\ UNCHANGED ShellFrame

\* self.runner: the ProcessRunner of the latest "Run Flash"
runner ==
    LET flash == {k \in 1..Len(shell) : shell[k].kind = "flash"}
    IN  IF flash = {} THEN 0
        ELSE CHOOSE k \in flash : \A j \in flash : j <= k

\* "Stop": terminate() signals the process of self.runner when it runs
stop_run ==
    /\ runner # 0
    /\ shell[runner].pc = "running"
    /\ shell' = [shell EXCEPT ![runner].signalled = TRUE]
    /\ UNCHANGED ShellFrame

\* the CLI process of run k exits and proc.wait() returns rc: a flash run
\* is over; run_batch goes on to the next unit unless this was the last
\* one or rc is non-zero and "Stop on Error" is ticked
ShellProcessExit ==
    /\ \E k \in 1..Len(shell), rc \in {0, 1}, prod_stop_on_error \in BOOLEAN :
          /\ shell[k].pc = "running"
          /\ shell[k].signalled => rc # 0
          /\ LET r == shell[k]
                 last == \/ r.kind = "flash"
                         \/ r.i + 1 >= r.units
                         \/ rc # 0 /\ prod_stop_on_error
             IN  shell' = [shell EXCEPT
                    ![k] = [r EXCEPT !.i = r.i + 1,
                                     !.pc = IF last THEN "done" ELSE "spawn",
                                     !.signalled = FALSE]]
    /\ UNCHANGED ShellFrame

NextShell ==
    \/ on_flash_run
    \/ on_prod_next_unit
    \/ on_prod_batch
    \/ ShellPopen
    \/ stop_run
    \/ ShellProcessExit

InitShell == InitGui /\ InitCliIdle /\ InitUnitsIdle

SpecShell == InitShell /\ [][NextShell]_vars

\* ------------------------------------------------------------------------
\* DeviceDetector and its two users: the monitor thread (_monitor_loop) and
\* the UI thread (Tk event loop).  _scan_devices enumerates, then compares
\* and replaces the device set and calls the callbacks inside "with
\* self._lock"; the callbacks of MainWindow call root.after.
\* ------------------------------------------------------------------------
DeviceIds == {"bootsel_E", "serial_COM3"}
MaxPending == 1   \* a scan starts with fewer scheduled Tk callbacks than this

DetectorFrame == << gui_state, cli_state, prov, call, shell >>

RECURSIVE SeqOf(_)
SeqOf(S) == IF S = {} THEN << >>
            ELSE LET x == CHOOSE y \in S : TRUE
                 IN  << x >> \o SeqOf(S \ {x})

Notice(kind, id) == [kind |-> kind, id |-> id]

\* every listed device is announced as added
scan_steps_announcing_all(previous, current) ==
    SeqOf({Notice("removed", d) : d \in previous \ current})
    \o SeqOf({Notice("added", d) : d \in current})
    \o << Notice("store", None) >>
    \o (IF previous # current THEN << Notice("changed", None) >> ELSE << >>)

\* what _scan_devices does inside the lock with the old ids `previous` and
\* the enumerated ids `current`: the removed callbacks, the added callbacks,
\* the replacement of self._devices, the list-changed callback
scan_steps(previous, current) ==
    LET added == current \ previous
        removed == previous \ current
    IN  SeqOf({Notice("removed", d) : d \in removed})
        \o SeqOf({Notice("added", d) : d \in added})
        \o << Notice("store", None) >>
        \o (IF added # {} \/ removed # {}
            THEN << Notice("changed", None) >> ELSE << >>)

\* a thread that is not scanning
NoScan(pc) ==
    [pc |-> pc, current |-> {}, previous |-> {}, todo |-> << >>,
     fired |-> << >>, reads |-> 0]

\* `threaded`: whether Tcl was built with threads, so that a Tk call made
\* off the interpreter's thread is queued for it and waited for; without
\* threads the call is made in place
NewDetector(threaded) ==
    [threaded |-> threaded, world |-> {}, _devices |-> {}, _lock |-> "free",
     latest |-> {}, pending |-> << >>,
     monitor |-> NoScan("idle"), ui |-> NoScan("loop")]

\* a device is plugged in, changes mode or is removed
Plug ==
    /\ \E d \in DeviceIds :
        detector' = [detector EXCEPT
                        !.world = IF d \in @ THEN @ \ {d} ELSE @ \cup {d}]
    /\ UNCHANGED DetectorFrame

\* the enumeration at the top of _scan_devices, made without the lock;
\* `reads` calls of get_devices will follow the scan on this thread
Enumerate(t, reads) ==
    /\ Len(detector.pending) < MaxPending
    /\ detector' = [detector EXCEPT
                        ![t] = [NoScan("enumerated") EXCEPT
                                    !.current = detector.world,
                                    !.reads = reads],
                        !.latest = detector.world]
    /\ UNCHANGED DetectorFrame

\* _monitor_loop wakes up and scans
MonitorScan ==
    /\ detector.monitor.pc = "idle"
    /\ Enumerate("monitor", 0)

\* MainWindow._on_refresh_devices (scan_now, then the panel's refresh and
\* _update_device_count) or DevicePanel._refresh_devices (scan_once): the
\* scan runs on the UI thread
UiRefreshDevices ==
    /\ detector.ui.pc = "loop"
    /\ \E reads \in {1, 3} : Enumerate("ui", reads)

\* "with self._lock:" of _scan_devices is entered
ScanLock(t) ==
    /\ detector[t].pc = "enumerated"
    /\ detector._lock = "free"
    /\ detector' = [detector EXCEPT
                        !._lock = t,
                        ![t].previous = detector._devices,
                        ![t].todo = scan_steps(detector._devices,
                                               detector[t].current),
                        ![t].pc = "locked"]
    /\ UNCHANGED DetectorFrame

\* the call of root.after made by a callback on thread t can be carried out:
\* on the UI thread at once, on the monitor thread of a threaded build only
\* while the UI thread is in its event loop
TkCallServed(t) ==
    \/ t = "ui"
    \/ ~detector.threaded
    \/ detector.ui.pc = "loop"

\* the next step inside the lock: a callback or the replacement of the set
ScanStep(t) ==
    /\ detector[t].pc = "locked"
    /\ detector[t].todo # << >>
    /\ LET n == Head(detector[t].todo)
       IN  IF n.kind = "store"
           THEN detector' = [detector EXCEPT
                                !._devices = detector[t].current,
                                ![t].todo = Tail(@)]
           ELSE /\ TkCallServed(t)
                /\ detector' = [detector EXCEPT
                                    !.pending = Append(@, n.kind),
                                    ![t].fired = Append(@, n),
                                    ![t].todo = Tail(@)]
    /\ UNCHANGED DetectorFrame

\* the lock is left: the monitor thread sleeps, scan_once goes on to
\* get_devices
ScanUnlock(t) ==
    /\ detector[t].pc = "locked"
    /\ detector[t].todo = << >>
    /\ detector' = [detector EXCEPT
                        !._lock = "free",
                        ![t].pc = IF t = "ui" THEN "get_devices" ELSE "idle"]
    /\ UNCHANGED DetectorFrame

\* a scheduled callback runs in the event loop: _handle_device_added and
\* _handle_device_removed call get_devices twice (refresh,
\* _update_device_count), the list-changed one once (refresh)
UiTimer ==
    /\ detector.ui.pc = "loop"
    /\ detector.pending # << >>
    /\ detector' = [detector EXCEPT
                        !.pending = Tail(@),
                        !.ui.pc = "get_devices",
                        !.ui.reads = IF Head(detector.pending) = "changed"
                                     THEN 1 ELSE 2]
    /\ UNCHANGED DetectorFrame

\* DeviceDetector.get_devices on the UI thread: the lock is taken, the list
\* copied and the lock left
get_devices ==
    /\ detector.ui.pc = "get_devices"
    /\ detector._lock = "free"
    /\ detector' = [detector EXCEPT
                        !.ui.reads = @ - 1,
                        !.ui.pc = IF detector.ui.reads > 1
                                  THEN "get_devices" ELSE "loop"]
    /\ UNCHANGED DetectorFrame

NextDetector ==
    \/ Plug
    \/ MonitorScan
    \/ UiRefreshDevices
    \/ ScanLock("monitor")
    \/ ScanLock("ui")
    \/ ScanStep("monitor")
    \/ ScanStep("ui")
    \/ ScanUnlock("monitor")
    \/ ScanUnlock("ui")
    \/ UiTimer
    \/ get_devices

InitDetector ==
    /\ InitGui /\ InitCliIdle
    /\ prov = [pc |-> "idle"] /\ call = NoCall /\ shell = << >>
    /\ detector \in {NewDetector(threaded) : threaded \in BOOLEAN}

SpecDetector == InitDetector /\ [][NextDetector]_vars

\* ------------------------------------------------------------------------
\* Properties of the GUI workflow (Spec)
\* ------------------------------------------------------------------------
Entered(w) == {w.entered[i] : i \in 1..Len(w.entered)}

AfterUpload == {"WAITING_FOR_SERIAL", "PROVISIONING", "VERIFYING",
                "GENERATING_LABEL", "GENERATING_REPORT", "UPDATING_CSV",
                "COMPLETED"}
AfterProvisioning == {"VERIFYING", "GENERATING_LABEL", "GENERATING_REPORT",
                      "UPDATING_CSV", "COMPLETED"}
AfterVerification == {"GENERATING_LABEL", "GENERATING_REPORT", "UPDATING_CSV",
                      "COMPLETED"}

NoLedgerOperation(w) ==
    /\ w.update_result = None
    /\ w.save_result = None
    /\ w.marked_serial = None

\* C1: when the firmware upload of a run fails, the run ends in error, it
\* never enters WAITING_FOR_SERIAL or any later state up to COMPLETED, and it
\* neither updates a ledger row nor saves the ledger.
C1_UploadFailureStopsRun ==
    \A t \in 1..Len(workers) :
        workers[t].upload = "fail" =>
            /\ workers[t].outcome = "error"
            /\ Entered(workers[t]) \cap AfterUpload = {}
            /\ NoLedgerOperation(workers[t])

C1_Witness ==
    \E t \in 1..Len(workers) :
        /\ workers[t].upload = "fail"
        /\ workers[t].outcome = "error"
        /\ workers[t].entered = << "UPLOADING_FIRMWARE" >>

\* C2: a run touches the ledger only after upload, provisioning and
\* verification all succeeded (verification status PASSED); a failed
\* provisioning or a verification status other than PASSED, PARTIAL included,
\* ends the run in error with no later step entered and no ledger operation.
C2_LedgerOnlyAfterAllSucceeded ==
    \A t \in 1..Len(workers) :
        LET w == workers[t] IN
        /\ ~NoLedgerOperation(w) =>
                /\ w.upload = "ok"
                /\ w.provisioning = "ok"
                /\ w.verification = "PASSED"
        /\ w.provisioning = "fail" =>
                /\ w.outcome = "error"
                /\ Entered(w) \cap AfterProvisioning = {}
                /\ NoLedgerOperation(w)
        /\ w.verification \notin {None, "PASSED"} =>
                /\ w.outcome = "error"
                /\ Entered(w) \cap AfterVerification = {}
                /\ NoLedgerOperation(w)

C2_Witness ==
    \E t \in 1..Len(workers) :
        /\ workers[t].upload = "ok"
        /\ workers[t].provisioning = "ok"
        /\ workers[t].verification = "PARTIAL"
        /\ workers[t].outcome = "error"

DocumentedOrder ==
    << "WAITING_FOR_DEVICE", "UPLOADING_FIRMWARE", "WAITING_FOR_SERIAL",
       "PROVISIONING", "VERIFYING", "GENERATING_LABEL", "GENERATING_REPORT",
       "UPDATING_CSV", "COMPLETED" >>

\* C6: the states a run enters follow the order WAITING_FOR_DEVICE,
\* UPLOADING_FIRMWARE, WAITING_FOR_SERIAL, PROVISIONING, VERIFYING,
\* GENERATING_LABEL, GENERATING_REPORT, UPDATING_CSV, COMPLETED with none
\* entered twice, and a successful run enters every one of them.
C6_StatesInDocumentedOrder ==
    \A t \in 1..Len(workers) :
        LET w == workers[t] IN
        /\ Len(w.entered) <= Len(DocumentedOrder)
        /\ w.entered = SubSeq(DocumentedOrder, 1, Len(w.entered))
        /\ w.outcome = "complete" => w.entered = DocumentedOrder

\* the worker is past the stop check that opens the UPDATING_CSV step
BegunCsv(w) == w.step = "csv" /\ w.at # "chk" /\ w.outcome # "stopped"

\* C7: once a stop has been requested, a live worker passes no further stop
\* check, so it begins no further step; and when the request stands before
\* the UPDATING_CSV step has begun, the worker carries out no ledger update.

C7_StopBeginsNoFurtherStep ==
    [][\A t \in 1..Len(workers) :
          (stop_requested /\ IsAlive(workers[t])) =>
              /\ t <= Len(workers')
              /\ ~(workers[t].at = "chk" /\ workers'[t].at = "put")
              /\ workers[t].at = "chk" => workers'[t].entered = workers[t].entered
              /\ ~BegunCsv(workers[t]) =>
                    /\ ~BegunCsv(workers'[t])
                    /\ NoLedgerOperation(workers'[t])]_vars

C7_Witness ==
    \E t \in 1..Len(workers) :
        /\ stop_requested
        /\ workers[t].outcome = "stopped"
        /\ workers[t].step = "csv"
        /\ workers[t].report.success
        /\ NoLedgerOperation(workers[t])

\* C8: whenever no run is active and no message is pending, the interface
\* is re-armed: start enabled and stop disabled; start is disabled only
\* while a run is active.
C8_InterfaceRearmed ==
    (AliveWorkers = {} /\ message_queue = << >>) => (start_btn /\ ~stop_btn)

\* C9: at most one workflow worker thread is alive at any time.
C9_AtMostOneWorker == Cardinality(AliveWorkers) <= 1

C9_Witness ==
    \E t \in 1..Len(workers) :
        /\ workers[t].at = "run"
        /\ ~start_btn
        /\ \E i \in 1..Len(rows) : rows[i].programmed

\* C10: the ledger row a run marks is the row whose serial number was
\* captured in the context at the start of the run.
C10_MarkedRowIsContextRow ==
    \A t \in 1..Len(workers) :
        workers[t].marked_serial # None =>
            workers[t].marked_serial = workers[t].ctx_serial

\* C29: once the workflow state is STOPPED after a user stop, with no run
\* started since the stop was requested, no handled message takes it away
\* from STOPPED: neither a state posted by the stopped run's worker nor the
\* completion handler's return to IDLE
C29_StoppedStaysStopped ==
    [][workflow_state = "STOPPED" /\ stop_requested
          => workflow_state' = "STOPPED"]_vars

\* ------------------------------------------------------------------------
\* Properties of FlashApp production_programming (SpecCLI)
\* ------------------------------------------------------------------------
Programmed(file, sn) ==
    \E k \in 1..Len(file) : file[k].serial_number = sn /\ file[k].programmed

C5_UpdateOnlyAfterDeploy ==
    /\ cli.run.update # None => cli.run.deploy = "ok"
    /\ cli.run.failed_step # None =>
        /\ cli.run.failed_step \in
                {"lookup", "header", "configure", "build", "image", "deploy"}
        /\ cli.run.result = "failure"
        /\ cli.run.update = None
        /\ cli_file = cli.run.file_at_start
    /\ cli.run.deploy = "fail" => cli.run.result = "failure"

C5_Witness ==
    /\ cli.run.pc = "done"
    /\ cli.run.failed_step = "deploy"
    /\ cli.run.result = "failure"
    /\ cli_file = cli.run.file_at_start
    /\ Len(cli.history) >= 2
    /\ cli.history[1].success /\ cli.history[1].updated

\* C40: a call of update_serial_number_in_csv loses no ledger data: whether
\* it returned success or failure, every row other than the matched one is
\* in the file afterwards with unchanged values, and a call that matched no
\* still-unassigned row left the file as it was
C40_NoLedgerDataLost ==
    cli.run.update # None =>
        LET before == cli.run.file_at_start
            matched == FirstMatch(before, cli.run.serial_number)
        IN  /\ \A i \in 1..Len(before) :
                  i # matched => /\ i <= Len(cli_file)
                                 /\ cli_file[i] = before[i]
            /\ matched = 0 => cli_file = before

\* ------------------------------------------------------------------------
\* Properties of the serial provisioner (SpecProv)
\* ------------------------------------------------------------------------

\* connect loops a call of `fn` runs: provision runs its own and the one of
\* reboot_and_reconnect_wait_ready
ConnectLoops(fn) ==
    IF fn = "provision" THEN 2 ELSE IF fn = "reboot" THEN 1 ELSE 0

C12_ReappearedPortReturned ==
    ( /\ prov.pc = "done"
      /\ prov.fn \in {"provision", "reboot"}
      /\ prov.sent_reboot
      /\ prov.reappear # None
      /\ prov.banner
      /\ prov.new_port # None => prov.opened
      /\ ~prov.wait_broken )
    => prov.reboot_result = prov.reappear

InSingleWait ==
    \/ prov.pc = "ready1"
    \/ prov.pc = "ready2" /\ prov.fn = "reboot"

\* C37: during one wait for the ready banner a dropped port triggers at
\* most one reconnect attempt; when the port drops again the wait fails
\* instead of reconnecting again
C37_OneReconnectPerWait ==
    InSingleWait => prov.ready_reconnects <= 1

\* C30: the workflow sends SYSINFO and NETINFO only over a connection that
\* was opened after the reboot that follows provisioning and on which the
\* ready banner was seen; when the reboot-and-reconnect did not succeed (the
\* port did not reappear, could not be opened, or no banner came), Step 4
\* ends in ERROR and no query is sent.
C30_QueriesOnlyAfterReadyReconnect ==
    /\ prov.queries > 0 =>
          /\ prov.reboot_result # None
          /\ prov.opened
          /\ prov.banner
    /\ (prov.step4 \in {"verified", "error"} /\ prov.reboot_result = None)
          => prov.step4 = "error" /\ prov.queries = 0

\* ------------------------------------------------------------------------
\* Properties of single calls (SpecUnits)
\* ------------------------------------------------------------------------

\* the banner showed a serial number other than the expected one
BannerMismatch(c) ==
    /\ c.env.new_port
    /\ c.env.banner_serial # None
    /\ c.serial_number # None
    /\ c.env.banner_serial # c.serial_number

\* the banner wait ended without both a serial number and a firmware version
BannerTimeout(c) ==
    /\ c.env.new_port
    /\ ~(c.env.banner_serial # None /\ c.env.banner_firmware)

\* C13: after a successful flash with verification on, deploy_firmware
\* fails when the banner's serial number differs from the expected one and
\* reprogram is off, succeeds with a warning for that mismatch when reprogram
\* is on, and succeeds with a warning when no port appears or the banner
\* wait times out without showing another serial number.
C13_DeployVerificationOutcomes ==
    (call.fn = "deploy_firmware" /\ Flashed(call.env) /\ call.verify) =>
        /\ (BannerMismatch(call) /\ ~call.reprogram) =>
                (~call.result /\ call.report = "mismatch_error")
        /\ (BannerMismatch(call) /\ call.reprogram) =>
                (call.result /\ call.report = "reprogram_warning")
        /\ ~call.env.new_port =>
                (call.result /\ call.report = "no_port_warning")
        /\ (BannerTimeout(call) /\ ~BannerMismatch(call)) =>
                (call.result /\ call.report = "timeout_warning")

C13_Witness ==
    /\ call.fn = "deploy_firmware"
    /\ Flashed(call.env)
    /\ call.verify
    /\ BannerMismatch(call)
    /\ ~call.reprogram
    /\ ~call.result

\* C14: main with --flash and a file that does not exist exits with code 1
\* and never runs the flashing tool; a successful --flash with --skip-verify
\* exits with code 0 without waiting for a serial port.
C14_FlashExitCodes ==
    call.fn = "main" =>
        /\ ~call.args.path_exists =>
                (call.result.exit_code = 1 /\ ~call.result.tool_invoked)
        /\ ( /\ call.args.skip_verify
             /\ call.args.picotool_found
             /\ call.args.path_exists
             /\ call.args.device_ok ) =>
                (call.result.exit_code = 0 /\ ~call.result.waited_for_port)

\* C15: when SYSINFO was obtained and the four checks ran, the status is
\* PASSED iff every check passed, FAILED iff none passed, PARTIAL otherwise.
C15_VerdictFromChecks ==
    (call.fn = "verify" /\ call.sysinfo) =>
        LET passed == passed_count(call.checks)
        IN /\ call.status = "PASSED" <=> passed = NumChecks
           /\ call.status = "FAILED" <=> passed = 0
           /\ call.status = "PARTIAL" <=> passed \in 1..(NumChecks - 1)

C15_Witness ==
    /\ call.fn = "verify"
    /\ call.sysinfo
    /\ passed_count(call.checks) = 1
    /\ call.status = "PARTIAL"

\* C16: the k-th update of a row that is already programmed adds the columns
\* reprogram_k_date, reprogram_k_firmware and reprogram_k_reason, the first
\* two holding the date and firmware the row had before, leaves the columns
\* the row already had as they were, and the row's reprogram count is k
\* afterwards.
C16_KthReprogramColumns ==
    (call.fn = "update_selected_row" /\ call.k >= 1) =>
        LET extra == call.row.extra_columns
            date_col == ReprogramColumn(call.k, "_date")
            fw_col == ReprogramColumn(call.k, "_firmware")
            reason_col == ReprogramColumn(call.k, "_reason")
        IN /\ {date_col, fw_col, reason_col} \subseteq DOMAIN extra
           /\ date_col \in DOMAIN extra =>
                extra[date_col] = call.before.date_programmed
           /\ fw_col \in DOMAIN extra =>
                extra[fw_col] = call.before.firmware_version
           /\ \A c \in DOMAIN call.before.extra_columns :
                c \in DOMAIN extra /\ extra[c] = call.before.extra_columns[c]
           /\ reprogram_count(call.row) = call.k

\* C18: upload returns without running the flashing tool whenever validation
\* fails, with the status PICOTOOL_NOT_FOUND when the tool is missing,
\* FIRMWARE_NOT_FOUND when the file does not exist, and INVALID_FIRMWARE when
\* the file exists but has a disallowed extension or a size outside
\* 100 bytes to 16 MiB.
C18_UploadValidationStatus ==
    call.fn = "upload" =>
        LET f == call.file
            r == call.result
            invalid == \/ Lower(f.ext) \notin FIRMWARE_EXTENSIONS
                       \/ f.size < MinFirmwareSize
                       \/ f.size > MaxFirmwareSize
        IN /\ ~call.picotool_exists =>
                (r.status = "PICOTOOL_NOT_FOUND" /\ ~r.invoked)
           /\ (call.picotool_exists /\ ~f.exists) =>
                (r.status = "FIRMWARE_NOT_FOUND" /\ ~r.invoked)
           /\ (call.picotool_exists /\ f.exists /\ f.is_file /\ invalid) =>
                (r.status = "INVALID_FIRMWARE" /\ ~r.invoked)

\* C19: a PersistedState written to disk and loaded by a fresh
\* PersistenceManager comes back equal in every field, empty recent-file
\* lists and unset window coordinates included.
C19_SaveLoadRoundTrip ==
    call.fn = "save_then_load" =>
        /\ ~call.loaded.raised
        /\ \A key \in DOMAIN DefaultState :
                call.loaded.state[key] = call.written[key]

C19_Witness ==
    /\ call.fn = "save_then_load"
    /\ call.written.window_x = PyNone
    /\ call.written.recent_firmware_files = PyList(<< >>)
    /\ call.written.recent_csv_files = PyList(<< PyStr("b.csv"), PyStr("a.csv") >>)
    /\ call.loaded.state = call.written

\* C20: whatever the state file holds (nothing, text that is not JSON, JSON
\* whose top level is not an object), constructing a PersistenceManager
\* raises nothing and leaves the default state.
C20_BadStateFileGivesDefaults ==
    ( /\ call.fn = "PersistenceManager"
      /\ \/ call.content.kind \in {"absent", "not json"}
         \/ call.content.value.j # "object" ) =>
        /\ ~call.loaded.raised
        /\ call.loaded.state = DefaultState

\* C21: after any sequence of add_recent_csv / add_recent_firmware calls from
\* empty lists, each list has at most 10 entries and no path twice, and the
\* list just added to has the added path first, followed by the entries it
\* had before, other than that path, in the order they had.
C21_RecentListsBoundedDistinctOrdered ==
    call.fn = "add_recent" =>
        /\ \A k \in RecentKeys :
            /\ Len(call.lists[k]) <= MAX_RECENT_FILES
            /\ \A i, j \in 1..Len(call.lists[k]) :
                    i # j => call.lists[k][i] # call.lists[k][j]
        /\ LET after == call.lists[call.key]
           IN /\ after[1] = call.path
              /\ \A i \in 2..Len(after) :
                    /\ after[i] # call.path
                    /\ IndexOf(call.before, after[i]) > 0
              /\ \A i, j \in 2..Len(after) :
                    i < j => IndexOf(call.before, after[i])
                                < IndexOf(call.before, after[j])
              /\ Len(after) >= IF Len(call.before) < MAX_RECENT_FILES
                               THEN Len(call.before) ELSE MAX_RECENT_FILES

C21_Witness ==
    /\ call.fn = "add_recent"
    /\ Len(call.before) = MAX_RECENT_FILES
    /\ Len(call.lists[call.key]) = MAX_RECENT_FILES
    /\ IndexOf(call.before, call.path) = 0
    /\ call.readds > 0

\* C22: the geometry the main window records at exit is in the state file
\* afterwards and is the geometry of the window at the next start.
C22_GeometryStoredAndRestored ==
    call.fn = "exit_then_start" =>
        /\ call.file.kind = "json"
        /\ call.restored = PyStr(call.geometry)
        /\ call.applied = call.geometry

\* C23: for every buffer and every serial string, extract_serial_from_uf2
\* on the result of embed_serial_number returns that serial string.
C23_EmbedExtractRoundTrip ==
    call.fn = "embed_serial_number" =>
        call.extracted = [found |-> TRUE, serial |-> call.serial_number]

RoundedPx(mm) == (2 * mm * 10 * LABEL_DPI + 254) \div (2 * 254)

\* C25: with 75 mm x 50 mm at 300 DPI the label raster is 886 x 591 pixels,
\* each dimension mm / 25.4 * DPI rounded to the nearest integer, whatever
\* size the template was drawn at.
C25_LabelRasterSize ==
    call.fn = "generate_label" =>
        /\ RoundedPx(LABEL_WIDTH_MM) = 886
        /\ RoundedPx(LABEL_HEIGHT_MM) = 591
        /\ call.size = << RoundedPx(LABEL_WIDTH_MM),
                          RoundedPx(LABEL_HEIGHT_MM) >>

\* C26: every board ID the database file held before a register_board_id
\* call is still in it after the call, whether the call succeeded or failed.
C26_BoardIdsNeverShrink ==
    call.fn = "register_board_id" =>
        call.before \subseteq StoredIds(call.file)


\* ------------------------------------------------------------------------
\* Properties of the Desktop Shell (SpecShell)
\* ------------------------------------------------------------------------
RunningCli == {k \in 1..Len(shell) : shell[k].pc = "running"}

\* C27: the Desktop Shell never has two CLI subprocesses running at the
\* same time: no run launches a process while an earlier launched CLI
\* process is still running
C27_OneCliProcessAtATime == Cardinality(RunningCli) <= 1


\* ------------------------------------------------------------------------
\* Properties of single calls (SpecUnits): device scan
\* ------------------------------------------------------------------------
\* C28: a scanned mount whose path contains RPI-RP2 is classified BOOTSEL
\* whatever the INFO_UF2.TXT probe meets, and a listed serial port is
\* classified SERIAL exactly when its vendor ID is 0x2E8A, whatever its
\* product ID
C28_ClassifiedByNameAndVendor ==
    call.fn = "_scan_devices" =>
        /\ call.mount \in NamedMounts =>
              \E d \in call.devices :
                  d.state = "BOOTSEL" /\ d.path = call.mount
        /\ \A i \in 1..Len(call.ports) :
              (\E d \in call.devices :
                  d.state = "SERIAL" /\ d.path = call.ports[i].device)
              <=> call.ports[i].vid = 11914

C28_Witness ==
    /\ call.fn = "_scan_devices"
    /\ call.mount \in NamedMounts
    /\ call.info.exists = "raises"
    /\ Len(call.ports) = 2
    /\ call.ports[1].vid = 11914 /\ call.ports[1].pid = 10
    /\ call.ports[2].vid = 1155 /\ call.ports[2].pid = 3
    /\ Cardinality(call.devices) = 2


\* C31: after a successful upload, a device that enumerates with vendor ID
\* 0x2E8A at any moment before the timeout, the time before the snapshot
\* included, is detected and the workflow goes on to PROVISIONING
C31_EnumeratedPortDetected ==
    ( /\ call.fn = "wait_for_serial_port"
      /\ call.vid = 11914
      /\ call.at <= MaxPolls )
    => call.serial_port = "ttyACM0" /\ call.next = "PROVISIONING"


\* ------------------------------------------------------------------------
\* Properties of the device detector (SpecDetector)
\* ------------------------------------------------------------------------
\* the monitor thread has the lock and its callback's Tk call waits for the
\* UI thread
MonitorWaitsForUi ==
    /\ detector._lock = "monitor"
    /\ detector.monitor.todo # << >>
    /\ Head(detector.monitor.todo).kind # "store"
    /\ detector.threaded

\* the UI thread waits for the lock, in get_devices or in a manual scan
UiWaitsForLock ==
    /\ detector.ui.pc \in {"get_devices", "enumerated"}
    /\ detector._lock # "free"

\* C32: the detector thread and the UI thread never deadlock: never does
\* one thread hold the device-set lock while it waits for the UI thread to
\* serve a notification and the UI thread wait for that lock
C32_NoDeadlock == ~(MonitorWaitsForUi /\ UiWaitsForLock)

\* no scan is in progress on either thread
NoScanInProgress ==
    /\ detector.monitor.pc = "idle"
    /\ detector.ui.pc \in {"loop", "get_devices"}

\* C33: when the monitor thread's scan and a manual scan overlap, the
\* stored device set is never replaced by an older enumeration after a
\* newer one was stored: once both have finished, the stored set is the
\* result of the enumeration performed last
C33_LatestEnumerationStored ==
    NoScanInProgress => detector._devices = detector.latest

\* how often the scan fired the notification (kind, id)
Fired(fired, kind, id) ==
    Cardinality({i \in 1..Len(fired) : fired[i] = Notice(kind, id)})

\* the notifications of a scan with old set P and enumerated set C
FiredExactly(fired, P, C) ==
    /\ \A d \in DeviceIds :
          /\ Fired(fired, "removed", d) = IF d \in P \ C THEN 1 ELSE 0
          /\ Fired(fired, "added", d) = IF d \in C \ P THEN 1 ELSE 0
    /\ Fired(fired, "changed", None) = IF P # C THEN 1 ELSE 0

C34_WorkerTouchesNoWidget ==
    call.fn = "generate_label_step" => call.widget_reads = {}


\* C38: a response is classified as failed exactly when some line holds
\* ERROR or FAIL and neither that line nor an earlier one holds OK or
\* SUCCESS; every other non-empty response is OK, an empty or absent one is
\* failed
C38_ResponseClassification ==
    call.fn = "_check_response_ok" =>
        LET r == call.response
            failing == \E i \in 1..Len(r) :
                          /\ r[i].err
                          /\ \A j \in 1..i : ~r[j].ok
        IN  IF r = NoResponse \/ r = << >> THEN ~call.ok
            ELSE call.ok <=> ~failing

C38_Witness ==
    /\ call.fn = "_check_response_ok"
    /\ Len(call.response) = 2
    /\ call.response[1].ok /\ ~call.response[1].err
    /\ call.response[2].err /\ ~call.response[2].ok
    /\ call.ok


\* a response is OK by what its lines are marked to hold
MarkedOk(r) ==
    /\ r # NoResponse /\ r # << >>
    /\ ~\E i \in 1..Len(r) : r[i].err /\ \A j \in 1..i : ~r[j].ok

ProvCommandNames == << "PROV UNLOCK", "PROV SET_SN", "PROV SET_REGION" >>

\* the setting commands sent: each one only after OK responses to all
\* earlier ones, and COMMAND_ERROR with nothing more sent at the first
\* response that is not OK
SettingCommandsChecked ==
    LET firstbad == {k \in 1..3 : /\ ~MarkedOk(call.responses[k])
                                  /\ \A j \in 1..(k-1) :
                                        MarkedOk(call.responses[j])}
    IN  IF firstbad # {}
        THEN LET k == CHOOSE k \in firstbad : TRUE
             IN  /\ call.sent = SubSeq(ProvCommandNames, 1, k)
                 /\ call.status = "COMMAND_ERROR"
        ELSE /\ SubSeq(call.sent, 1, 3) = ProvCommandNames
             /\ Len(call.sent) \in 4..(3 + MaxStatusAttempts)
             /\ \A i \in 4..Len(call.sent) : call.sent[i] = "PROV STATUS"

\* C35 as stated: the four commands go out in order, each only after OK
\* responses to the earlier ones, and the first response that is not OK,
\* a PROV STATUS one included, gives COMMAND_ERROR
C35_FirstNotOkIsCommandError ==
    (call.fn = "provision_device" /\ call.connected) =>
        /\ SettingCommandsChecked
        /\ (\E i \in 4..Len(call.sent) :
                ~MarkedOk(call.replies[i - 3].response))
              => call.status = "COMMAND_ERROR"

\* C35 (amended): PROV UNLOCK, PROV SET_SN and PROV SET_REGION go out in
\* that order, each only after OK responses to the earlier ones, and the
\* first of them whose response is not OK gives COMMAND_ERROR with nothing
\* more sent; PROV STATUS follows one to three times and is not classified:
\* COMMAND_ERROR is returned only when none of the polls was answered
C35_SettingCommandsGated ==
    (call.fn = "provision_device" /\ call.connected) =>
        /\ SettingCommandsChecked
        /\ Len(call.sent) > 3 =>
              (call.status = "COMMAND_ERROR"
                  <=> \A i \in 4..Len(call.sent) :
                         call.replies[i - 3].response = NoResponse)

C35_Witness ==
    /\ call.fn = "provision_device" /\ call.connected
    /\ Len(call.sent) = 6
    /\ call.replies[1].response # NoResponse
    /\ ~MarkedOk(call.replies[1].response)
    /\ call.status = "VERIFICATION_FAILED"


\* the lines of the reply that are of the form 'K: V'
KeyedLines(r) == {i \in 1..Len(r) : r[i].key # << "?" >>}
\* the last line that stands for key k
LastFor(r, k) ==
    CHOOSE i \in KeyedLines(r) :
        r[i].key = k /\ \A j \in KeyedLines(r) : r[j].key = k => j <= i
\* what the map is to hold for line i: the trimmed value, or the region
\* code a region value holds
HeldFor(l) ==
    IF l.key = K_region /\ l.code # "none"
    THEN (IF l.code = "EU" THEN << "E", "U" >> ELSE << "U", "S" >>)
    ELSE l.value

\* the alias rule of C39
AliasCopied(r, result) ==
    LET keys == {r[i].key : i \in KeyedLines(r)}
        present == {a \in 1..Len(SerialAliases) : SerialAliases[a] \in keys}
    IN  K_serial_number \notin keys =>
            IF present = {} THEN K_serial_number \notin DOMAIN result
            ELSE /\ K_serial_number \in DOMAIN result
                 /\ result[K_serial_number] =
                        r[LastFor(r, SerialAliases[
                            CHOOSE a \in present :
                                \A b \in present : a <= b])].value

\* C39 as stated: for every line 'K: V' the map holds the trimmed V (the
\* region code for a region value that contains one) under the normalised
\* key, and serial_number takes the first present alias when it was not
\* parsed
C39_EveryLineHeld ==
    call.fn = "_parse_status" =>
        /\ \A i \in KeyedLines(call.response) :
              /\ call.response[i].key \in DOMAIN call.result
              /\ call.result[call.response[i].key] = HeldFor(call.response[i])
        /\ AliasCopied(call.response, call.result)

\* C39 (amended): the same for the last line of each normalised key; an
\* earlier line with the same key is replaced
C39_LastLineOfEachKeyHeld ==
    call.fn = "_parse_status" =>
        /\ \A i \in KeyedLines(call.response) :
              /\ call.response[i].key \in DOMAIN call.result
              /\ call.result[call.response[i].key] =
                    HeldFor(call.response[
                        LastFor(call.response, call.response[i].key)])
        /\ AliasCopied(call.response, call.result)

C39_Witness ==
    /\ call.fn = "_parse_status"
    /\ Len(call.response) = 2
    /\ call.response[1].key = << "d", "e", "v", "i", "c", "e", "_", "s", "e",
                                 "r", "i", "a", "l" >>
    /\ call.response[2].key = K_region /\ call.response[2].code = "EU"
    /\ call.result[K_serial_number] = << "S", "N", "-", "0", "0", "1" >>
    /\ call.result[K_region] = << "E", "U" >>

====
